---- MODULE Spec2Model ----
(***************************************************************************)
(* Boulder Dash remake, src/BoulderDash/index.js: the seeded pseudo-random *)
(* generator, the cave decoder (caveLoad), the sprite list built by        *)
(* setup(), the per-tick update() and the startup / key / frame handlers.  *)
(*                                                                         *)
(* JavaScript numbers are doubles; every value the program computes here   *)
(* is an integer below 2^53, so the arithmetic is exact.  TLC's integers   *)
(* are 32-bit signed, so the 32-bit generator state is kept as two 16-bit  *)
(* halves [hi, lo] standing for hi * 2^16 + lo.                            *)
(***************************************************************************)
EXTENDS Integers, Sequences, FiniteSets, TLC

VARIABLES
  pc,            \* position of the program: "loading", "running", "failed", ...
  images,        \* per requested image: "pending", "loaded" or "error"
  caveId,        \* global caveId (index.js:26)
  difficultyId,  \* global difficultyId (index.js:27)
  hex,           \* the byte sequence caveLoad decodes (its local `hex`)
  currentSeed,   \* generator state (index.js:88)
  cave,          \* the grid: cave[row][col] (index.js:22)
  sprites,       \* the sprite list (index.js:28)
  joypad,        \* button mask (index.js:531)
  time,          \* accumulated milliseconds (index.js:29)
  rand,          \* caveLoad's local `rand`: the last byte drawn
  index,         \* caveLoad's local `index`: position in the byte sequence
  cell,          \* cells filled so far when the fill pass runs cell by cell
  loads,         \* number of times setup() ran caveLoad
  ticks,         \* number of update() calls so far
  renders        \* number of render() calls so far

vars == <<pc, images, caveId, difficultyId, hex, currentSeed, cave, sprites,
          joypad, time, rand, index, cell, loads, ticks,
                 renders>>

(***************************************************************************)
(* Program constants                                                       *)
(***************************************************************************)
cols == 40
rows == 22
timer == 100

\* JavaScript's `undefined` (a read past the end of an array) and NaN
\* (arithmetic on undefined); neither is a byte, a row or a column.
undefined == -1
NaN == -1000

types == <<
  [name |-> "space",     gid |-> 0,  code |-> \h00],
  [name |-> "dirt",      gid |-> 58, code |-> \h01],
  [name |-> "brick",     gid |-> 52, code |-> \h02],
  [name |-> "magic",     gid |-> 52, code |-> \h03],
  [name |-> "outbox",    gid |-> 50, code |-> \h04],
  [name |-> "steel",     gid |-> 50, code |-> \h07],
  [name |-> "firefly",   gid |-> 89, code |-> \h08],
  [name |-> "boulder",   gid |-> 57, code |-> \h10],
  [name |-> "diamond",   gid |-> 81, code |-> \h14],
  [name |-> "inbox",     gid |-> 50, code |-> \h25],
  [name |-> "butterfly", gid |-> 73, code |-> \h30],
  [name |-> "rockford",  gid |-> 1,  code |-> \h38],
  [name |-> "amoeba",    gid |-> 65, code |-> \h3A]
  >>

\* types.find(t => t.name === name): the first entry with that name.
typeByName(name) ==
  LET I == {i \in 1..Len(types) : types[i].name = name}
  IN types[CHOOSE i \in I : \A j \in I : i <= j]

\* types.find(t => t.code == code) is undefined when no entry has the code,
\* and the first entry with that code otherwise.
HasType(code) == \E i \in 1..Len(types) : types[i].code = code

typeByCode(code) ==
  LET I == {i \in 1..Len(types) : types[i].code = code}
  IN types[CHOOSE i \in I : \A j \in I : i <= j]

(***************************************************************************)
(* Random number with seed (index.js:84-121)                               *)
(***************************************************************************)
Half == 65536                    \* 2^16; LCG_MODULUS = Half * Half = 2^32
LCG_MULTIPLIER_HI == 25          \* 1664525 = 25 * 2^16 + 26125
LCG_MULTIPLIER_LO == 26125
LCG_INCREMENT_HI == 15470        \* 1013904223 = 15470 * 2^16 + 62303
LCG_INCREMENT_LO == 62303

\* A 32-bit value from a number below 2^31.
U32(n) == [hi |-> n \div Half, lo |-> n % Half]

\* setSeed(seed): currentSeed = Math.floor(seed) % LCG_MODULUS, for an
\* integer seed in 0 .. 2^31 - 1.
setSeed(seed) == U32(seed)

\* nextRandom() with the modulus one bit short: % 2^31 in place of % 2^32.
nextRandomShortModulus(seed) ==
  LET low == LCG_MULTIPLIER_LO * seed.lo + LCG_INCREMENT_LO
      high == LCG_MULTIPLIER_HI * seed.lo + LCG_MULTIPLIER_LO * seed.hi
              + LCG_INCREMENT_HI + (low \div Half)
  IN [hi |-> high % (Half \div 2), lo |-> low % Half]

\* nextRandom(): currentSeed = (LCG_MULTIPLIER * currentSeed + LCG_INCREMENT)
\* % LCG_MODULUS, by halves: with x = xh * 2^16 + xl and a = ah * 2^16 + al,
\* a * x + c = (ah*xl + al*xh + ch) * 2^16 + (al*xl + cl)  (mod 2^32).
nextRandom(seed) ==
  LET low == LCG_MULTIPLIER_LO * seed.lo + LCG_INCREMENT_LO
      high == LCG_MULTIPLIER_HI * seed.lo + LCG_MULTIPLIER_LO * seed.hi
              + LCG_INCREMENT_HI + (low \div Half)
  IN [hi |-> high % Half, lo |-> low % Half]

\* randInt255() returning the second byte of the state in place of the
\* first: Math.floor(rand32Bit / 256) % 256 for rand32Bit % 256.
randInt255SecondByte(seed) ==
  LET next == nextRandom(seed)
  IN [seed |-> next, value |-> next.lo \div 256]

\* randInt255(): [seed |-> the new state, value |-> nextRandom() % 256].
randInt255(seed) ==
  LET next == nextRandom(seed)
  IN [seed |-> next, value |-> next.lo % 256]

(***************************************************************************)
(* Cave loading and decoding (index.js:132-247)                            *)
(***************************************************************************)
rawCaveDatas == <<
  <<
     \h01, \h14, \h0A, \h0F, \h0A, \h0B, \h0C, \h0D, \h0E, \h0C, \h0C, \h0C, \h0C, \h0C, \h96, \h6E,
     \h46, \h28, \h1E, \h08, \h0B, \h09, \hD4, \h20, \h00, \h10, \h14, \h00, \h3C, \h32, \h09, \h00,
     \h42, \h01, \h09, \h1E, \h02, \h42, \h09, \h10, \h1E, \h02, \h25, \h03, \h04, \h04, \h26, \h12,
     \hFF
  >>,
  <<
     \h02, \h14, \h14, \h32, \h03, \h00, \h01, \h57, \h58, \h0A, \h0C, \h09, \h0D, \h0A, \h96, \h6E,
     \h46, \h46, \h46, \h0A, \h04, \h09, \h00, \h00, \h00, \h10, \h14, \h08, \h3C, \h32, \h09, \h02,
     \h42, \h01, \h08, \h26, \h02, \h42, \h01, \h0F, \h26, \h02, \h42, \h08, \h03, \h14, \h04, \h42,
     \h10, \h03, \h14, \h04, \h42, \h18, \h03, \h14, \h04, \h42, \h20, \h03, \h14, \h04, \h40, \h01,
     \h05, \h26, \h02, \h40, \h01, \h0B, \h26, \h02, \h40, \h01, \h12, \h26, \h02, \h40, \h14, \h03,
     \h14, \h04, \h25, \h12, \h15, \h04, \h12, \h16, \hFF
  >>,
  <<
     \h03, \h00, \h0F, \h00, \h00, \h32, \h36, \h34, \h37, \h18, \h17, \h18, \h17, \h15, \h96, \h64,
     \h5A, \h50, \h46, \h09, \h08, \h09, \h04, \h00, \h02, \h10, \h14, \h00, \h64, \h32, \h09, \h00,
     \h25, \h03, \h04, \h04, \h27, \h14, \hFF
  >>,
  <<
     \h04, \h14, \h05, \h14, \h00, \h6E, \h70, \h73, \h77, \h24, \h24, \h24, \h24, \h24, \h78, \h64,
     \h50, \h3C, \h32, \h04, \h08, \h09, \h00, \h00, \h10, \h00, \h00, \h00, \h14, \h00, \h00, \h00,
     \h25, \h01, \h03, \h04, \h26, \h16, \h81, \h08, \h0A, \h04, \h04, \h00, \h30, \h0A, \h0B, \h81,
     \h10, \h0A, \h04, \h04, \h00, \h30, \h12, \h0B, \h81, \h18, \h0A, \h04, \h04, \h00, \h30, \h1A,
     \h0B, \h81, \h20, \h0A, \h04, \h04, \h00, \h30, \h22, \h0B, \hFF
  >>,
  <<
     \h05, \h14, \h32, \h5A, \h00, \h00, \h00, \h00, \h00, \h04, \h05, \h06, \h07, \h08, \h96, \h78,
     \h5A, \h3C, \h1E, \h09, \h0A, \h09, \h00, \h00, \h00, \h00, \h00, \h00, \h00, \h00, \h00, \h00,
     \h25, \h01, \h03, \h04, \h27, \h16, \h80, \h08, \h0A, \h03, \h03, \h00, \h80, \h10, \h0A, \h03,
     \h03, \h00, \h80, \h18, \h0A, \h03, \h03, \h00, \h80, \h20, \h0A, \h03, \h03, \h00, \h14, \h09,
     \h0C, \h08, \h0A, \h0A, \h14, \h11, \h0C, \h08, \h12, \h0A, \h14, \h19, \h0C, \h08, \h1A, \h0A,
     \h14, \h21, \h0C, \h08, \h22, \h0A, \h80, \h08, \h10, \h03, \h03, \h00, \h80, \h10, \h10, \h03,
     \h03, \h00, \h80, \h18, \h10, \h03, \h03, \h00, \h80, \h20, \h10, \h03, \h03, \h00, \h14, \h09,
     \h12, \h08, \h0A, \h10, \h14, \h11, \h12, \h08, \h12, \h10, \h14, \h19, \h12, \h08, \h1A, \h10,
     \h14, \h21, \h12, \h08, \h22, \h10, \hFF
  >>,
  <<
     \h06, \h14, \h28, \h3C, \h00, \h14, \h15, \h16, \h17, \h04, \h06, \h07, \h08, \h08, \h96, \h78,
     \h64, \h5A, \h50, \h0E, \h0A, \h09, \h00, \h00, \h10, \h00, \h00, \h00, \h32, \h00, \h00, \h00,
     \h82, \h01, \h03, \h0A, \h04, \h00, \h82, \h01, \h06, \h0A, \h04, \h00, \h82, \h01, \h09, \h0A,
     \h04, \h00, \h82, \h01, \h0C, \h0A, \h04, \h00, \h41, \h0A, \h03, \h0D, \h04, \h14, \h03, \h05,
     \h08, \h04, \h05, \h14, \h03, \h08, \h08, \h04, \h08, \h14, \h03, \h0B, \h08, \h04, \h0B, \h14,
     \h03, \h0E, \h08, \h04, \h0E, \h82, \h1D, \h03, \h0A, \h04, \h00, \h82, \h1D, \h06, \h0A, \h04,
     \h00, \h82, \h1D, \h09, \h0A, \h04, \h00, \h82, \h1D, \h0C, \h0A, \h04, \h00, \h41, \h1D, \h03,
     \h0D, \h04, \h14, \h24, \h05, \h08, \h23, \h05, \h14, \h24, \h08, \h08, \h23, \h08, \h14, \h24,
     \h0B, \h08, \h23, \h0B, \h14, \h24, \h0E, \h08, \h23, \h0E, \h25, \h03, \h14, \h04, \h26, \h14,
     \hFF
  >>,
  <<
     \h07, \h4B, \h0A, \h14, \h02, \h07, \h08, \h0A, \h09, \h0F, \h14, \h19, \h19, \h19, \h78, \h78,
     \h78, \h78, \h78, \h09, \h0A, \h0D, \h00, \h00, \h00, \h10, \h08, \h00, \h64, \h28, \h02, \h00,
     \h42, \h01, \h07, \h0C, \h02, \h42, \h1C, \h05, \h0B, \h02, \h7A, \h13, \h15, \h02, \h02, \h14,
     \h04, \h06, \h14, \h04, \h0E, \h14, \h04, \h16, \h14, \h22, \h04, \h14, \h22, \h0C, \h14, \h22,
     \h16, \h25, \h14, \h03, \h04, \h27, \h07, \hFF
  >>,
  <<
     \h08, \h14, \h0A, \h14, \h01, \h03, \h04, \h05, \h06, \h0A, \h0F, \h14, \h14, \h14, \h78, \h6E,
     \h64, \h5A, \h50, \h02, \h0E, \h09, \h00, \h00, \h00, \h10, \h08, \h00, \h5A, \h32, \h02, \h00,
     \h14, \h04, \h06, \h14, \h22, \h04, \h14, \h22, \h0C, \h04, \h00, \h05, \h25, \h14, \h03, \h42,
     \h01, \h07, \h0C, \h02, \h42, \h01, \h0F, \h0C, \h02, \h42, \h1C, \h05, \h0B, \h02, \h42, \h1C,
     \h0D, \h0B, \h02, \h43, \h0E, \h11, \h08, \h02, \h14, \h0C, \h10, \h00, \h0E, \h12, \h14, \h13,
     \h12, \h41, \h0E, \h0F, \h08, \h02, \hFF
  >>,
  <<
     \h09, \h14, \h05, \h0A, \h64, \h89, \h8C, \hFB, \h33, \h4B, \h4B, \h50, \h55, \h5A, \h96, \h96,
     \h82, \h82, \h78, \h08, \h04, \h09, \h00, \h00, \h10, \h14, \h00, \h00, \hF0, \h78, \h00, \h00,
     \h82, \h05, \h0A, \h0D, \h0D, \h00, \h01, \h0C, \h0A, \h82, \h19, \h0A, \h0D, \h0D, \h00, \h01,
     \h1F, \h0A, \h42, \h11, \h12, \h09, \h02, \h40, \h11, \h13, \h09, \h02, \h25, \h07, \h0C, \h04,
     \h08, \h0C, \hFF
  >>,
  <<
     \h0A, \h14, \h19, \h3C, \h00, \h00, \h00, \h00, \h00, \h0C, \h0C, \h0C, \h0C, \h0C, \h96, \h82,
     \h78, \h6E, \h64, \h06, \h08, \h09, \h00, \h00, \h00, \h00, \h00, \h00, \h00, \h00, \h00, \h00,
     \h25, \h0D, \h03, \h04, \h27, \h16, \h54, \h05, \h04, \h11, \h03, \h54, \h15, \h04, \h11, \h05,
     \h80, \h05, \h0B, \h11, \h03, \h08, \hC2, \h01, \h04, \h15, \h11, \h00, \h0D, \h04, \hC2, \h07,
     \h06, \h0D, \h0D, \h00, \h0D, \h06, \hC2, \h09, \h08, \h09, \h09, \h00, \h0D, \h08, \hC2, \h0B,
     \h0A, \h05, \h05, \h00, \h0D, \h0A, \h82, \h03, \h06, \h03, \h0F, \h08, \h00, \h04, \h06, \h54,
     \h04, \h10, \h04, \h04, \hFF
  >>,
  <<
     \h0B, \h14, \h32, \h00, \h00, \h04, \h66, \h97, \h64, \h06, \h06, \h06, \h06, \h06, \h78, \h78,
     \h96, \h96, \hF0, \h0B, \h08, \h09, \h00, \h00, \h00, \h10, \h08, \h00, \h64, \h50, \h02, \h00,
     \h42, \h0A, \h03, \h09, \h04, \h42, \h14, \h03, \h09, \h04, \h42, \h1E, \h03, \h09, \h04, \h42,
     \h09, \h16, \h09, \h00, \h42, \h0C, \h0F, \h11, \h02, \h42, \h05, \h0B, \h09, \h02, \h42, \h0F,
     \h0B, \h09, \h02, \h42, \h19, \h0B, \h09, \h02, \h42, \h1C, \h13, \h0B, \h01, \h14, \h04, \h03,
     \h14, \h0E, \h03, \h14, \h18, \h03, \h14, \h22, \h03, \h14, \h04, \h16, \h14, \h23, \h15, \h25,
     \h14, \h14, \h04, \h26, \h11, \hFF
  >>,
  <<
     \h0C, \h14, \h14, \h00, \h00, \h3C, \h02, \h3B, \h66, \h13, \h13, \h0E, \h10, \h15, \hB4, \hAA,
     \hA0, \hA0, \hA0, \h0C, \h0A, \h09, \h00, \h00, \h00, \h10, \h14, \h00, \h3C, \h32, \h09, \h00,
     \h42, \h0A, \h05, \h12, \h04, \h42, \h0E, \h05, \h12, \h04, \h42, \h12, \h05, \h12, \h04, \h42,
     \h16, \h05, \h12, \h04, \h42, \h02, \h06, \h0B, \h02, \h42, \h02, \h0A, \h0B, \h02, \h42, \h02,
     \h0E, \h0F, \h02, \h42, \h02, \h12, \h0B, \h02, \h81, \h1E, \h04, \h04, \h04, \h00, \h08, \h20,
     \h05, \h81, \h1E, \h09, \h04, \h04, \h00, \h08, \h20, \h0A, \h81, \h1E, \h0E, \h04, \h04, \h00,
     \h08, \h20, \h0F, \h25, \h03, \h14, \h04, \h27, \h16, \hFF
  >>,
  <<
     \h0D, \h8C, \h05, \h08, \h00, \h01, \h02, \h03, \h04, \h32, \h37, \h3C, \h46, \h50, \hA0, \h9B,
     \h96, \h91, \h8C, \h06, \h08, \h0D, \h00, \h00, \h10, \h00, \h00, \h00, \h28, \h00, \h00, \h00,
     \h25, \h12, \h03, \h04, \h0A, \h03, \h3A, \h14, \h03, \h42, \h05, \h12, \h1E, \h02, \h70, \h05,
     \h13, \h1E, \h02, \h50, \h05, \h14, \h1E, \h02, \hC1, \h05, \h15, \h1E, \h02, \hFF
  >>,
  <<
     \h0E, \h14, \h0A, \h14, \h00, \h00, \h00, \h00, \h00, \h1E, \h23, \h28, \h2A, \h2D, \h96, \h91,
     \h8C, \h87, \h82, \h0C, \h08, \h09, \h00, \h00, \h10, \h00, \h00, \h00, \h00, \h00, \h00, \h00,
     \h81, \h0A, \h0A, \h0D, \h0D, \h00, \h70, \h0B, \h0B, \h0C, \h03, \hC1, \h0C, \h0A, \h03, \h0D,
     \hC1, \h10, \h0A, \h03, \h0D, \hC1, \h14, \h0A, \h03, \h0D, \h50, \h16, \h08, \h0C, \h02, \h48,
     \h16, \h07, \h0C, \h02, \hC1, \h17, \h06, \h03, \h04, \hC1, \h1B, \h06, \h03, \h04, \hC1, \h1F,
     \h06, \h03, \h04, \h25, \h03, \h03, \h04, \h27, \h14, \hFF
  >>,
  <<
     \h0F, \h08, \h0A, \h14, \h01, \h1D, \h1E, \h1F, \h20, \h0F, \h14, \h14, \h19, \h1E, \h78, \h78,
     \h78, \h78, \h8C, \h08, \h0E, \h09, \h00, \h00, \h00, \h10, \h08, \h00, \h64, \h50, \h02, \h00,
     \h42, \h02, \h04, \h0A, \h03, \h42, \h0F, \h0D, \h0A, \h01, \h41, \h0C, \h0E, \h03, \h02, \h43,
     \h0C, \h0F, \h03, \h02, \h04, \h14, \h16, \h25, \h14, \h03, \hFF
  >>,
  <<
     \h10, \h14, \h0A, \h14, \h01, \h78, \h81, \h7E, \h7B, \h0C, \h0F, \h0F, \h0F, \h0C, \h96, \h96,
     \h96, \h96, \h96, \h09, \h0A, \h09, \h00, \h00, \h10, \h00, \h00, \h00, \h32, \h00, \h00, \h00,
     \h25, \h01, \h03, \h04, \h27, \h04, \h81, \h08, \h13, \h04, \h04, \h00, \h08, \h0A, \h14, \hC2,
     \h07, \h0A, \h06, \h08, \h43, \h07, \h0A, \h06, \h02, \h81, \h10, \h13, \h04, \h04, \h00, \h08,
     \h12, \h14, \hC2, \h0F, \h0A, \h06, \h08, \h43, \h0F, \h0A, \h06, \h02, \h81, \h18, \h13, \h04,
     \h04, \h00, \h08, \h1A, \h14, \h81, \h20, \h13, \h04, \h04, \h00, \h08, \h22, \h14, \hFF
  >>,
  <<
     \h11, \h14, \h1E, \h00, \h0A, \h0B, \h0C, \h0D, \h0E, \h06, \h06, \h06, \h06, \h06, \h0A, \h0A,
     \h0A, \h0A, \h0A, \h0E, \h02, \h09, \h00, \h00, \h00, \h14, \h00, \h00, \hFF, \h09, \h00, \h00,
     \h87, \h00, \h02, \h28, \h16, \h07, \h87, \h00, \h02, \h14, \h0C, \h00, \h32, \h0A, \h0C, \h10,
     \h0A, \h04, \h01, \h0A, \h05, \h25, \h03, \h05, \h04, \h12, \h0C, \hFF
  >>,
  <<
     \h12, \h14, \h0A, \h00, \h0A, \h0B, \h0C, \h0D, \h0E, \h10, \h10, \h10, \h10, \h10, \h0F, \h0F,
     \h0F, \h0F, \h0F, \h06, \h0F, \h09, \h00, \h00, \h00, \h00, \h00, \h00, \h00, \h00, \h00, \h00,
     \h87, \h00, \h02, \h28, \h16, \h07, \h87, \h00, \h02, \h14, \h0C, \h01, \h50, \h01, \h03, \h09,
     \h03, \h48, \h02, \h03, \h08, \h03, \h54, \h01, \h05, \h08, \h03, \h50, \h01, \h06, \h07, \h03,
     \h50, \h12, \h03, \h09, \h05, \h54, \h12, \h05, \h08, \h05, \h50, \h12, \h06, \h07, \h05, \h25,
     \h01, \h04, \h04, \h12, \h04, \hFF
  >>,
  <<
     \h13, \h04, \h0A, \h00, \h0A, \h0B, \h0C, \h0D, \h0E, \h0E, \h0E, \h0E, \h0E, \h0E, \h14, \h14,
     \h14, \h14, \h14, \h06, \h08, \h09, \h00, \h00, \h00, \h00, \h00, \h00, \h00, \h00, \h00, \h00,
     \h87, \h00, \h02, \h28, \h16, \h07, \h87, \h00, \h02, \h14, \h0C, \h00, \h54, \h01, \h0C, \h12,
     \h02, \h88, \h0F, \h09, \h04, \h04, \h08, \h25, \h08, \h03, \h04, \h12, \h07, \hFF
  >>,
  <<
     \h14, \h03, \h1E, \h00, \h00, \h00, \h00, \h00, \h00, \h06, \h06, \h06, \h06, \h06, \h14, \h14,
     \h14, \h14, \h14, \h06, \h08, \h09, \h00, \h00, \h00, \h00, \h00, \h00, \h00, \h00, \h00, \h00,
     \h87, \h00, \h02, \h28, \h16, \h07, \h87, \h00, \h02, \h14, \h0C, \h01, \hD0, \h0B, \h03, \h03,
     \h02, \h80, \h0B, \h07, \h03, \h06, \h00, \h43, \h0B, \h06, \h03, \h02, \h43, \h0B, \h0A, \h03,
     \h02, \h50, \h08, \h07, \h03, \h03, \h25, \h03, \h03, \h04, \h09, \h0A, \hFF
  >>
>>

\* hex[i], zero-based as in the source; undefined outside the array.
HexAt(h, i) == IF i \in 0..(Len(h) - 1) THEN h[i + 1] ELSE undefined

\* cave[row][col] = code.  cave[row] is undefined for a row outside the
\* array (or NaN) and the assignment throws; a column outside 0..cols-1
\* adds a property to the row array and does not throw.
CaveSet(st, row, col, code) ==
  IF row \notin DOMAIN st.cave
  THEN [st EXCEPT !.threw = TRUE]
  ELSE IF col \in DOMAIN st.cave[row]
  THEN [st EXCEPT !.cave[row][col] = code]
  ELSE [st EXCEPT !.cave[row] =
          [c \in (DOMAIN st.cave[row]) \cup {col} |->
             IF c = col THEN code ELSE st.cave[row][c]]]

\* The comparisons of index.js:171-182 taken in the opposite order, each
\* one overwriting the cell: the last bound above the byte wins.
RandomObjectLastBound(h, r) ==
  IF r < HexAt(h, \h1C) + HexAt(h, \h1D) + HexAt(h, \h1E) + HexAt(h, \h1F)
  THEN HexAt(h, \h1B)
  ELSE IF r < HexAt(h, \h1C) + HexAt(h, \h1D) + HexAt(h, \h1E)
  THEN HexAt(h, \h1A)
  ELSE IF r < HexAt(h, \h1C) + HexAt(h, \h1D)
  THEN HexAt(h, \h19)
  ELSE IF r < HexAt(h, \h1C)
  THEN HexAt(h, \h18)
  ELSE typeByName("dirt").code

\* index.js:171-182: the object drawn for a random byte.
RandomObject(h, r) ==
  IF r < HexAt(h, \h1C) + HexAt(h, \h1D) + HexAt(h, \h1E) + HexAt(h, \h1F)
  THEN IF r < HexAt(h, \h1C) + HexAt(h, \h1D) + HexAt(h, \h1E)
       THEN IF r < HexAt(h, \h1C) + HexAt(h, \h1D)
            THEN IF r < HexAt(h, \h1C)
                 THEN HexAt(h, \h18)
                 ELSE HexAt(h, \h19)
            ELSE HexAt(h, \h1A)
       ELSE HexAt(h, \h1B)
  ELSE typeByName("dirt").code

\* The fill pass with the bottom border tested one row too low
\* (row == rows in place of row == rows - 1).
FillCellOpenBottom(h, st, row, col) ==
  IF row = 0 \/ row = rows \/ col = 0 \/ col = cols - 1
  THEN CaveSet(st, row, col, typeByName("steel").code)
  ELSE LET r == randInt255(st.seed)
       IN CaveSet([st EXCEPT !.seed = r.seed, !.rand = r.value], row, col,
                  RandomObject(h, r.value))

\* index.js:162-182: one cell of the fill pass.
FillCell(h, st, row, col) ==
  IF row = 0 \/ row = rows - 1 \/ col = 0 \/ col = cols - 1
  THEN CaveSet(st, row, col, typeByName("steel").code)
  ELSE LET r == randInt255(st.seed)
       IN CaveSet([st EXCEPT !.seed = r.seed, !.rand = r.value], row, col,
                  RandomObject(h, r.value))

\* index.js:161: for (col = 0; col < cols; col++)
RECURSIVE FillCols(_, _, _, _)
FillCols(h, st, row, col) ==
  IF col >= cols THEN st
  ELSE LET next == FillCell(h, st, row, col)
       IN IF next.threw THEN next ELSE FillCols(h, next, row, col + 1)

\* index.js:160: for (row = 0; row < rows; row++)
RECURSIVE FillRows(_, _, _)
FillRows(h, st, row) ==
  IF row >= rows THEN st
  ELSE LET next == FillCols(h, st, row, 0)
       IN IF next.threw THEN next ELSE FillRows(h, next, row + 1)

\* The direction table read from zero: 0 is up, ..., 7 is up-left.
getDXDYFromZeroBasedDirection(direction) ==
  CASE direction = 0 -> [dx |-> 0,  dy |-> -1]
    [] direction = 1 -> [dx |-> 1,  dy |-> -1]
    [] direction = 2 -> [dx |-> 1,  dy |-> 0]
    [] direction = 3 -> [dx |-> 1,  dy |-> 1]
    [] direction = 4 -> [dx |-> 0,  dy |-> 1]
    [] direction = 5 -> [dx |-> -1, dy |-> 1]
    [] direction = 6 -> [dx |-> -1, dy |-> 0]
    [] direction = 7 -> [dx |-> -1, dy |-> -1]
    [] OTHER -> [dx |-> 0, dy |-> 0]

\* index.js:557-571
getDXDYFromDirection(direction) ==
  CASE direction = 1 -> [dx |-> 0,  dy |-> -1]
    [] direction = 2 -> [dx |-> 1,  dy |-> -1]
    [] direction = 3 -> [dx |-> 1,  dy |-> 0]
    [] direction = 4 -> [dx |-> 1,  dy |-> 1]
    [] direction = 5 -> [dx |-> 0,  dy |-> 1]
    [] direction = 6 -> [dx |-> -1, dy |-> 1]
    [] direction = 7 -> [dx |-> -1, dy |-> 0]
    [] direction = 8 -> [dx |-> -1, dy |-> -1]
    [] OTHER -> [dx |-> 0, dy |-> 0]

\* undefined + n and undefined - n are NaN.
Plus(a, n) == IF a = undefined \/ a = NaN THEN NaN ELSE a + n

\* index.js:210-212: for (i = 0; i < len; i++) cave[row+dy*i][col+dx*i] = code
RECURSIVE LineLoop(_, _, _, _, _, _, _)
LineLoop(st, code, col, row, len, d, i) ==
  IF ~(i < len) THEN st
  ELSE LET next == CaveSet(st, Plus(row, d.dy * i), Plus(col, d.dx * i), code)
       IN IF next.threw THEN next
          ELSE LineLoop(next, code, col, row, len, d, i + 1)

\* The filled rectangle with the last row left out of the border test
\* (y == hei - 1 forgotten): the bottom row is filled like the inside.
RECURSIVE FilledRectColsOpenBottom(_, _, _, _, _, _, _, _, _)
FilledRectColsOpenBottom(st, code, fil, col, row, len, hei, y, x) ==
  IF ~(x < len) THEN st
  ELSE LET next == IF y = 0 \/ x = 0 \/ x = len - 1
                   THEN CaveSet(st, Plus(row, y), Plus(col, x), code)
                   ELSE CaveSet(st, Plus(row, y), Plus(col, x), fil)
       IN IF next.threw THEN next
          ELSE FilledRectColsOpenBottom(next, code, fil, col, row, len, hei,
                                        y, x + 1)

\* index.js:222-229: one row of the filled rectangle
RECURSIVE FilledRectCols(_, _, _, _, _, _, _, _, _)
FilledRectCols(st, code, fil, col, row, len, hei, y, x) ==
  IF ~(x < len) THEN st
  ELSE LET next == IF y = 0 \/ y = hei - 1 \/ x = 0 \/ x = len - 1
                   THEN CaveSet(st, Plus(row, y), Plus(col, x), code)
                   ELSE CaveSet(st, Plus(row, y), Plus(col, x), fil)
       IN IF next.threw THEN next
          ELSE FilledRectCols(next, code, fil, col, row, len, hei, y, x + 1)

\* index.js:221-230
RECURSIVE FilledRectRows(_, _, _, _, _, _, _, _)
FilledRectRows(st, code, fil, col, row, len, hei, y) ==
  IF ~(y < hei) THEN st
  ELSE LET next == FilledRectCols(st, code, fil, col, row, len, hei, y, 0)
       IN IF next.threw THEN next
          ELSE FilledRectRows(next, code, fil, col, row, len, hei, y + 1)

\* index.js:239-241
RECURSIVE RectCols(_, _, _, _, _, _, _)
RectCols(st, code, col, row, len, y, x) ==
  IF ~(x < len) THEN st
  ELSE LET next == CaveSet(st, Plus(row, y), Plus(col, x), code)
       IN IF next.threw THEN next
          ELSE RectCols(next, code, col, row, len, y, x + 1)

\* The rectangle of kind 3 drawn as an outline, its inside left as it was.
RECURSIVE RectRowsOutline(_, _, _, _, _, _, _)
RectRowsOutline(st, code, col, row, len, hei, y) ==
  IF ~(y < hei) THEN st
  ELSE LET next == IF y = 0 \/ y = hei - 1 \/ len < 3
                   THEN RectCols(st, code, col, row, len, y, 0)
                   ELSE RectCols(RectCols(st, code, col, row, 1, y, 0),
                                 code, col, row, len, y, len - 1)
       IN IF next.threw THEN next
          ELSE RectRowsOutline(next, code, col, row, len, hei, y + 1)

\* index.js:238-242
RECURSIVE RectRows(_, _, _, _, _, _, _)
RectRows(st, code, col, row, len, hei, y) ==
  IF ~(y < hei) THEN st
  ELSE LET next == RectCols(st, code, col, row, len, y, 0)
       IN IF next.threw THEN next
          ELSE RectRows(next, code, col, row, len, hei, y + 1)

\* hex[index] & 0b00111111 and (hex[index] & 0b11000000) >> 6; both are 0
\* for undefined.
ObjectCode(b) == IF b = undefined THEN 0 ELSE b % 64
InstructionId(b) == IF b = undefined THEN 0 ELSE (b \div 64) % 4

\* The while body without the two score rows taken off the row byte
\* (row = hex[index+2] in place of hex[index+2] - 2).
InstructionRowUnshifted(h, st) ==
  LET at == st.index
      code == ObjectCode(HexAt(h, at))
      id == InstructionId(HexAt(h, at))
      col == HexAt(h, at + 1)
      row == Plus(HexAt(h, at + 2), 0)
  IN CASE id = 0 ->
            LET next == CaveSet(st, row, col, code)
            IN IF next.threw THEN next ELSE [next EXCEPT !.index = at + 3]
       [] id = 1 ->
            LET len == HexAt(h, at + 3)
                displacement == getDXDYFromDirection(Plus(HexAt(h, at + 4), 1))
                next == LineLoop(st, code, col, row, len, displacement, 0)
            IN IF next.threw THEN next ELSE [next EXCEPT !.index = at + 5]
       [] id = 2 ->
            LET len == HexAt(h, at + 3)
                hei == HexAt(h, at + 4)
                fil == HexAt(h, at + 5)
                next == FilledRectRows(st, code, fil, col, row, len, hei, 0)
            IN IF next.threw THEN next ELSE [next EXCEPT !.index = at + 6]
       [] id = 3 ->
            LET len == HexAt(h, at + 3)
                hei == HexAt(h, at + 4)
                next == RectRows(st, code, col, row, len, hei, 0)
            IN IF next.threw THEN next ELSE [next EXCEPT !.index = at + 5]

\* The while body with index += 5 in place of the index += 6 of
\* index.js:233 after a filled rectangle.
InstructionFilledRectShort(h, st) ==
  LET at == st.index
      code == ObjectCode(HexAt(h, at))
      id == InstructionId(HexAt(h, at))
      col == HexAt(h, at + 1)
      row == Plus(HexAt(h, at + 2), -2)
  IN CASE id = 0 ->
            LET next == CaveSet(st, row, col, code)
            IN IF next.threw THEN next ELSE [next EXCEPT !.index = at + 3]
       [] id = 1 ->
            LET len == HexAt(h, at + 3)
                displacement == getDXDYFromDirection(Plus(HexAt(h, at + 4), 1))
                next == LineLoop(st, code, col, row, len, displacement, 0)
            IN IF next.threw THEN next ELSE [next EXCEPT !.index = at + 5]
       [] id = 2 ->
            LET len == HexAt(h, at + 3)
                hei == HexAt(h, at + 4)
                fil == HexAt(h, at + 5)
                next == FilledRectRows(st, code, fil, col, row, len, hei, 0)
            IN IF next.threw THEN next ELSE [next EXCEPT !.index = at + 5]
       [] id = 3 ->
            LET len == HexAt(h, at + 3)
                hei == HexAt(h, at + 4)
                next == RectRows(st, code, col, row, len, hei, 0)
            IN IF next.threw THEN next ELSE [next EXCEPT !.index = at + 5]

\* index.js:194-245: the body of the while loop, one instruction at
\* st.index.
Instruction(h, st) ==
  LET at == st.index
      code == ObjectCode(HexAt(h, at))
      id == InstructionId(HexAt(h, at))
      col == HexAt(h, at + 1)
      row == Plus(HexAt(h, at + 2), -2)
  IN CASE id = 0 ->
            LET next == CaveSet(st, row, col, code)
            IN IF next.threw THEN next ELSE [next EXCEPT !.index = at + 3]
       [] id = 1 ->
            LET len == HexAt(h, at + 3)
                displacement == getDXDYFromDirection(Plus(HexAt(h, at + 4), 1))
                next == LineLoop(st, code, col, row, len, displacement, 0)
            IN IF next.threw THEN next ELSE [next EXCEPT !.index = at + 5]
       [] id = 2 ->
            LET len == HexAt(h, at + 3)
                hei == HexAt(h, at + 4)
                fil == HexAt(h, at + 5)
                next == FilledRectRows(st, code, fil, col, row, len, hei, 0)
            IN IF next.threw THEN next ELSE [next EXCEPT !.index = at + 6]
       [] id = 3 ->
            LET len == HexAt(h, at + 3)
                hei == HexAt(h, at + 4)
                next == RectRows(st, code, col, row, len, hei, 0)
            IN IF next.threw THEN next ELSE [next EXCEPT !.index = at + 5]

\* The instruction loop with a length test added: it returns normally at
\* the end of the byte sequence.
RECURSIVE InstructionLoopStopsAtEnd(_, _)
InstructionLoopStopsAtEnd(h, st) ==
  IF st.threw \/ HexAt(h, st.index) = \hFF \/ st.index >= Len(h) THEN st
  ELSE InstructionLoopStopsAtEnd(h, Instruction(h, st))

\* index.js:193: while (hex[index] != 0xFF) { ... }
RECURSIVE InstructionLoop(_, _)
InstructionLoop(h, st) ==
  IF st.threw \/ HexAt(h, st.index) = \hFF THEN st
  ELSE InstructionLoop(h, Instruction(h, st))

\* index.js:158-246 on the byte sequence h: seed, fill pass, instruction
\* pass.  st = [cave, seed, rand, index, threw] holds the globals cave and
\* currentSeed the call starts from and the locals rand and index.
Decode(h, st, difficulty) ==
  LET seeded == [st EXCEPT !.seed = setSeed(HexAt(h, \h04 + difficulty - 1))]
      filled == FillRows(h, seeded, 0)
  IN IF filled.threw THEN filled
     ELSE InstructionLoop(h, [filled EXCEPT !.index = \h20])

\* caveLoad that reseeds the generator and blanks the grid before it looks
\* the cave up in the table.
caveLoadResetsFirst(st, id, difficulty) ==
  IF id - 1 \notin 0..(Len(rawCaveDatas) - 1)
  THEN [st EXCEPT !.seed = setSeed(0),
                  !.cave = [row \in DOMAIN st.cave |->
                              [col \in DOMAIN st.cave[row] |-> \h00]],
                  !.threw = TRUE]
  ELSE Decode(rawCaveDatas[id], st, difficulty)

\* caveLoad(caveId, difficultyId): rawCaveDatas[caveId - 1] is undefined
\* for an index outside the table and .split throws before anything is
\* assigned.
caveLoad(st, id, difficulty) ==
  IF id - 1 \notin 0..(Len(rawCaveDatas) - 1)
  THEN [st EXCEPT !.threw = TRUE]
  ELSE Decode(rawCaveDatas[id], st, difficulty)

(***************************************************************************)
(* Cave statistics (index.js:249-270)                                      *)
(***************************************************************************)
\* index.js:250: stats = new Array(0x3B).fill(0)
StatsLength == \h3B

\* The codes in the cells the counting loops of index.js:251-256 visit.
StatsCodes(grid) ==
  {grid[p[1]][p[2]] : p \in (0..(rows - 1)) \X (0..(cols - 1))}

\* stats[code] after the counting loops, for a code below stats.length.
StatsCount(grid, code) ==
  Cardinality({p \in (0..(rows - 1)) \X (0..(cols - 1)) :
                 grid[p[1]][p[2]] = code})

\* index.js:258-261: total += stats[code] for code from `code` on.
RECURSIVE StatsTotalFrom(_, _, _)
StatsTotalFrom(grid, present, code) ==
  IF code >= StatsLength THEN 0
  ELSE (IF code \in present THEN StatsCount(grid, code) ELSE 0)
       + StatsTotalFrom(grid, present, code + 1)

\* The counting of the older caveStatistics: the frame cells are left out
\* (row from 1 to rows - 2, col from 1 to cols - 2).
caveStatisticsInterior(grid) ==
  LET inner == [r \in 0..(rows - 1) |->
                  [c \in 0..(cols - 1) |->
                     IF r \in 1..(rows - 2) /\ c \in 1..(cols - 2)
                     THEN grid[r][c] ELSE -2]]
      present == StatsCodes(inner)
  IN IF present \ {-2} \subseteq 0..(StatsLength - 1)
     THEN StatsTotalFrom(inner, present, 0)
     ELSE NaN

\* caveStatistics(): the total it logs.  stats[code] += 1 on a code at or
\* above stats.length makes that element undefined + 1 = NaN, and so the
\* total.
caveStatistics(grid) ==
  LET present == StatsCodes(grid)
  IN IF present \subseteq 0..(StatsLength - 1)
     THEN StatsTotalFrom(grid, present, 0)
     ELSE NaN

(***************************************************************************)
(* Sprite functions (index.js:276-341)                                     *)
(***************************************************************************)
\* The sprite pushed with 4 cycles for the inbox in place of the 5 of
\* index.js:320.
NewSpriteInboxFourCycles(col, row, type) ==
  LET n == type.name
      inbox == n = "inbox"
      anim == n \in {"diamond", "firefly", "butterfly", "amoeba"}
  IN [name |-> n,
      col |-> col,
      row |-> row,
      direction |-> 0,
      gid |-> type.gid,
      animated |-> anim \/ inbox,
      rounded |-> n \in {"brick", "boulder", "diamond"},
      fallable |-> n \in {"boulder", "diamond"},
      explodable |-> n \in {"firefly", "butterfly"},
      consumable |-> n \in {"dirt", "brick", "magic", "firefly", "boulder",
                            "diamond", "butterfly", "rockford", "amoeba"},
      animId |-> 0,
      animIdMax |-> IF inbox THEN 2 ELSE IF anim THEN 8 ELSE 0,
      animCycle |-> IF inbox THEN 4 ELSE 0,
      isFalling |-> FALSE]

\* index.js:276-324: the sprite appendSprites(col, row, type) pushes.
NewSprite(col, row, type) ==
  LET n == type.name
      inbox == n = "inbox"
      anim == n \in {"diamond", "firefly", "butterfly", "amoeba"}
  IN [name |-> n,
      col |-> col,
      row |-> row,
      direction |-> 0,
      gid |-> type.gid,
      animated |-> anim \/ inbox,
      rounded |-> n \in {"brick", "boulder", "diamond"},
      fallable |-> n \in {"boulder", "diamond"},
      explodable |-> n \in {"firefly", "butterfly"},
      consumable |-> n \in {"dirt", "brick", "magic", "firefly", "boulder",
                            "diamond", "butterfly", "rockford", "amoeba"},
      animId |-> 0,
      animIdMax |-> IF inbox THEN 2 ELSE IF anim THEN 8 ELSE 0,
      animCycle |-> IF inbox THEN 5 ELSE 0,
      isFalling |-> FALSE]

\* sprites.push(sprite)
appendSprites(list, col, row, type) == Append(list, NewSprite(col, row, type))

\* The expansion with a default in place of the skip: a code no type has
\* gets a sprite of the first type of the table.
ExpandCellDefaultType(grid, list, row, col) ==
  LET code == grid[row][col]
  IN IF code = \h00 THEN list
     ELSE IF ~HasType(code) THEN appendSprites(list, col, row, types[1])
     ELSE appendSprites(list, col, row, typeByCode(code))

\* index.js:369-378: one cell of the expansion.
ExpandCell(grid, list, row, col) ==
  LET code == grid[row][col]
  IN IF code = \h00 THEN list
     ELSE IF ~HasType(code) THEN list
     ELSE appendSprites(list, col, row, typeByCode(code))

\* index.js:368: for (col = 0; col < cols; col++)
RECURSIVE ExpandCols(_, _, _, _)
ExpandCols(grid, list, row, col) ==
  IF col >= cols THEN list
  ELSE LET next == ExpandCell(grid, list, row, col)
       IN IF Len(next) >= 0 THEN ExpandCols(grid, next, row, col + 1)
          ELSE next

\* index.js:366-380: sprites = []; for (row = 0; row < rows; row++) ...
RECURSIVE ExpandRows(_, _, _)
ExpandRows(grid, list, row) ==
  IF row >= rows THEN list
  ELSE LET next == ExpandCols(grid, list, row, 0)
       IN IF Len(next) >= 0 THEN ExpandRows(grid, next, row + 1)
          ELSE next

ExpandSprites(grid) == ExpandRows(grid, <<>>, 0)

(***************************************************************************)
(* Setup (index.js:357-381)                                                *)
(***************************************************************************)
\* The globals and locals a decode starts from.
DecodeState(grid, seed) ==
  [cave |-> grid, seed |-> seed, rand |-> 0, index |-> 0, threw |-> FALSE]

\* The expansion without the sprites = [] of index.js:366: the new sprites
\* are pushed after the ones already in the list.
ExpandAppending(loaded, list) ==
  [cave |-> loaded.cave,
   seed |-> loaded.seed,
   rand |-> loaded.rand,
   index |-> loaded.index,
   threw |-> loaded.threw,
   sprites |-> IF loaded.threw THEN list
               ELSE ExpandRows(loaded.cave, list, 0)]

\* index.js:366-380 after caveLoad ended in `loaded`: the expansion into a
\* fresh sprite list.  A throw inside caveLoad ends setup() there and leaves
\* the sprite list as it was.
Expand(loaded, list) ==
  [cave |-> loaded.cave,
   seed |-> loaded.seed,
   rand |-> loaded.rand,
   index |-> loaded.index,
   threw |-> loaded.threw,
   sprites |-> IF loaded.threw THEN list ELSE ExpandSprites(loaded.cave)]

\* index.js:363-380, the part of setup() after the images are loaded.
SetupCave(grid, seed, list, id, difficulty) ==
  Expand(caveLoad(DecodeState(grid, seed), id, difficulty), list)

\* The same with the byte sequence h as the table entry.
SetupStream(h, grid, seed, list, difficulty) ==
  Expand(Decode(h, DecodeState(grid, seed), difficulty), list)

(***************************************************************************)
(* Initial state: the globals as the script leaves them (index.js:16-31,   *)
(* 88, 531) with both images requested; hex is set by each specification.  *)
(***************************************************************************)
EmptyCave == [row \in 0..(rows - 1) |-> [col \in 0..(cols - 1) |-> 0]]

Globals ==
  /\ images = <<"pending", "pending">>
  /\ currentSeed = U32(0)
  /\ cave = EmptyCave
  /\ sprites = <<>>
  /\ joypad = 0
  /\ time = 0
  /\ rand = 0
  /\ index = 0
  /\ cell = 0
  /\ loads = 0
  /\ ticks = 0
  /\ renders = 0

(***************************************************************************)
(* Sprite lookups and ordering (index.js:326-341).  An index into the      *)
(* list stands for the sprite object; 0 stands for undefined.              *)
(***************************************************************************)
\* The first index of a non-empty set of indices.
First(I) == CHOOSE i \in I : \A j \in I : i <= j

\* sprites.find(sprite => sprite.name === name)
findByName(list, name) ==
  LET I == {i \in 1..Len(list) : list[i].name = name}
  IN IF I = {} THEN 0 ELSE First(I)

\* index.js:335-337
getSpriteAt(list, col, row) ==
  LET I == {i \in 1..Len(list) : list[i].col = col /\ list[i].row = row}
  IN IF I = {} THEN 0 ELSE First(I)

\* sprites.splice(i, 2): the sprite after the one removed goes with it.
SpliceTwo(list, i) ==
  [j \in 1..(Len(list) - (IF i < Len(list) THEN 2 ELSE 1)) |->
     IF j < i THEN list[j] ELSE list[j + 2]]

\* sprites.splice(i, 1)
Splice(list, i) ==
  [j \in 1..(Len(list) - 1) |-> IF j < i THEN list[j] ELSE list[j + 1]]

\* The comparator of index.js:327-332 is negative.
Before(a, b) == IF a.row /= b.row THEN a.row < b.row ELSE a.col < b.col

\* The least j of lo .. hi with list[i] before list[j], in a list whose part
\* lo .. hi is ordered and whose sprite at hi has list[i] before it.
RECURSIVE InsertionPoint(_, _, _, _)
InsertionPoint(list, i, lo, hi) ==
  IF lo >= hi THEN hi
  ELSE LET mid == (lo + hi) \div 2
       IN IF Before(list[i], list[mid])
          THEN InsertionPoint(list, i, lo, mid)
          ELSE InsertionPoint(list, i, mid + 1, hi)

\* Array.prototype.sort is stable: one step of a stable insertion sort,
\* moving list[i] behind the last sprite of list[1..i-1] it is not before.
InsertSorted(list, i) ==
  IF i < 2 \/ ~Before(list[i], list[i - 1]) THEN list
  ELSE LET p == InsertionPoint(list, i, 1, i - 1)
       IN SubSeq(list, 1, p - 1) \o <<list[i]>> \o SubSeq(list, p, i - 1)
            \o SubSeq(list, i + 1, Len(list))

\* InsertSorted for i = lo .. hi in turn (the range is halved to keep the
\* evaluation shallow).
RECURSIVE SortRange(_, _, _)
SortRange(list, lo, hi) ==
  IF lo > hi THEN list
  ELSE IF lo = hi THEN InsertSorted(list, lo)
  ELSE LET mid == (lo + hi) \div 2
           left == SortRange(list, lo, mid)
       IN IF Len(left) >= 0 THEN SortRange(left, mid + 1, hi) ELSE left

\* index.js:326-333
orderSprites(list) == SortRange(list, 1, Len(list))

(***************************************************************************)
(* Joypad (index.js:531-579)                                               *)
(***************************************************************************)
JOYPAD_UP == 1
JOYPAD_RIGHT == 2
JOYPAD_DOWN == 4
JOYPAD_LEFT == 8
JOYPAD_A == 16
JOYPAD_B == 32
JOYPAD_START == 64
JOYPAD_SELECT == 128

\* (joypad & mask) != 0, for a one-bit mask
isJoypadPressed(pad, mask) == (pad \div mask) % 2 = 1

\* The resolver with its tests in the opposite order: left first, up last.
getDirectionFromJoypadLeftFirst(pad) ==
  IF isJoypadPressed(pad, JOYPAD_LEFT) THEN 7
  ELSE IF isJoypadPressed(pad, JOYPAD_DOWN) THEN 5
  ELSE IF isJoypadPressed(pad, JOYPAD_RIGHT) THEN 3
  ELSE IF isJoypadPressed(pad, JOYPAD_UP) THEN 1
  ELSE 0

\* index.js:541-555
getDirectionFromJoypad(pad) ==
  IF isJoypadPressed(pad, JOYPAD_UP) THEN 1
  ELSE IF isJoypadPressed(pad, JOYPAD_RIGHT) THEN 3
  ELSE IF isJoypadPressed(pad, JOYPAD_DOWN) THEN 5
  ELSE IF isJoypadPressed(pad, JOYPAD_LEFT) THEN 7
  ELSE 0

\* The mask keyDownHandler / keyUpHandler use for event.code; 0 for a key
\* outside the switch.
KeyMask(code) ==
  CASE code = "ArrowRight" -> JOYPAD_RIGHT
    [] code = "ArrowLeft" -> JOYPAD_LEFT
    [] code = "ArrowUp" -> JOYPAD_UP
    [] code = "ArrowDown" -> JOYPAD_DOWN
    [] code = "KeyQ" -> JOYPAD_A
    [] code = "KeyS" -> JOYPAD_B
    [] code = "Enter" -> JOYPAD_START
    [] code = "Space" -> JOYPAD_SELECT
    [] OTHER -> 0

\* joypad | mask and joypad & ~mask, for a one-bit mask (or 0)
SetBit(pad, mask) ==
  IF mask = 0 \/ isJoypadPressed(pad, mask) THEN pad ELSE pad + mask
ClearBit(pad, mask) ==
  IF mask /= 0 /\ isJoypadPressed(pad, mask) THEN pad - mask ELSE pad

(***************************************************************************)
(* update() (index.js:418-507)                                             *)
(***************************************************************************)
\* The player move with the target tested by its consumable flag in place
\* of its name.
MovePlayerByFlag(list, pad) ==
  LET direction == getDirectionFromJoypad(pad)
      rockford == findByName(list, "rockford")
      displacement == getDXDYFromDirection(direction)
  IN IF direction = 0 THEN [sprites |-> list, threw |-> FALSE]
     ELSE IF rockford = 0 THEN [sprites |-> list, threw |-> TRUE]
     ELSE LET target == getSpriteAt(list,
                                    list[rockford].col + displacement.dx,
                                    list[rockford].row + displacement.dy)
              eaten == target /= 0 /\ list[target].consumable
              moved == [list EXCEPT
                          ![rockford].col = @ + displacement.dx,
                          ![rockford].row = @ + displacement.dy]
          IN IF target = 0 THEN [sprites |-> moved, threw |-> FALSE]
             ELSE IF eaten
             THEN [sprites |-> Splice(moved, target), threw |-> FALSE]
             ELSE [sprites |-> list, threw |-> FALSE]

\* The input phase without the test of the target (index.js:427): rockford
\* moves whatever is on the cell.
MovePlayerThroughWalls(list, pad) ==
  LET direction == getDirectionFromJoypad(pad)
      rockford == findByName(list, "rockford")
      displacement == getDXDYFromDirection(direction)
  IN IF direction = 0 THEN [sprites |-> list, threw |-> FALSE]
     ELSE IF rockford = 0 THEN [sprites |-> list, threw |-> TRUE]
     ELSE LET target == getSpriteAt(list,
                                    list[rockford].col + displacement.dx,
                                    list[rockford].row + displacement.dy)
              eaten == target /= 0 /\ list[target].name \in {"dirt", "diamond"}
              moved == [list EXCEPT
                          ![rockford].col = @ + displacement.dx,
                          ![rockford].row = @ + displacement.dy]
          IN IF target = 0 THEN [sprites |-> moved, threw |-> FALSE]
             ELSE IF eaten
             THEN [sprites |-> Splice(moved, target), threw |-> FALSE]
             ELSE [sprites |-> moved, threw |-> FALSE]

\* index.js:421-436: the input phase when no inbox sprite exists.  Reading
\* rockford.col throws when no rockford sprite exists.
MovePlayer(list, pad) ==
  LET direction == getDirectionFromJoypad(pad)
      rockford == findByName(list, "rockford")
      displacement == getDXDYFromDirection(direction)
  IN IF direction = 0 THEN [sprites |-> list, threw |-> FALSE]
     ELSE IF rockford = 0 THEN [sprites |-> list, threw |-> TRUE]
     ELSE LET target == getSpriteAt(list,
                                    list[rockford].col + displacement.dx,
                                    list[rockford].row + displacement.dy)
              eaten == target /= 0 /\ list[target].name \in {"dirt", "diamond"}
              moved == [list EXCEPT
                          ![rockford].col = @ + displacement.dx,
                          ![rockford].row = @ + displacement.dy]
          IN IF target = 0 THEN [sprites |-> moved, threw |-> FALSE]
             ELSE IF eaten
             THEN [sprites |-> Splice(moved, target), threw |-> FALSE]
             ELSE [sprites |-> list, threw |-> FALSE]

\* The replacement without the splice of index.js:442: rockford is pushed
\* and the inbox stays in the list.
ReplaceInboxKeepsInbox(list, inbox) ==
  appendSprites(list, list[inbox].col, list[inbox].row, typeByName("rockford"))

\* The replacement without the appendSprites of index.js:440: the inbox is
\* removed and no rockford is pushed.
ReplaceInboxRemovesOnly(list, inbox) == Splice(list, inbox)

\* index.js:437-443: the inbox whose cycles are over becomes rockford.
ReplaceInbox(list, inbox) ==
  Splice(appendSprites(list, list[inbox].col, list[inbox].row,
                       typeByName("rockford")), inbox)

\* The input phase with its two branches in the other order: an asserted
\* direction is served first, the inbox only when there is none.
InputPhaseInputFirst(list, pad) ==
  LET inbox == findByName(list, "inbox")
  IN IF getDirectionFromJoypad(pad) /= 0 \/ inbox = 0 THEN MovePlayer(list, pad)
     ELSE IF list[inbox].animCycle = 0
     THEN [sprites |-> ReplaceInbox(list, inbox), threw |-> FALSE]
     ELSE [sprites |-> list, threw |-> FALSE]

\* index.js:420-443
InputPhase(list, pad) ==
  LET inbox == findByName(list, "inbox")
  IN IF inbox = 0 THEN MovePlayer(list, pad)
     ELSE IF list[inbox].animCycle = 0
     THEN [sprites |-> ReplaceInbox(list, inbox), threw |-> FALSE]
     ELSE [sprites |-> list, threw |-> FALSE]

\* The falling step with the landing decided on the way down: the sprite
\* that moves down is resting at once when the cell under its new place is
\* taken.
FallStopsOnLanding(list, i) ==
  LET col == list[i].col
      row == list[i].row
      below == getSpriteAt(list, col, row + 1)
  IN IF below = 0
     THEN [list EXCEPT ![i].isFalling = (getSpriteAt(list, col, row + 2) = 0),
                       ![i].row = @ + 1]
     ELSE IF list[below].rounded
     THEN IF getSpriteAt(list, col - 1, row) = 0
             /\ getSpriteAt(list, col - 1, row + 1) = 0
          THEN [list EXCEPT ![i].col = @ - 1]
          ELSE IF getSpriteAt(list, col + 1, row) = 0
                  /\ getSpriteAt(list, col + 1, row + 1) = 0
          THEN [list EXCEPT ![i].col = @ + 1]
          ELSE [list EXCEPT ![i].isFalling = FALSE]
     ELSE IF list[i].explodable
     THEN list
     ELSE [list EXCEPT ![i].isFalling = FALSE]

\* The falling step without the assignment of index.js:454: the sprite
\* moves down and its isFalling is left as it was.
FallKeepsState(list, i) ==
  LET col == list[i].col
      row == list[i].row
      below == getSpriteAt(list, col, row + 1)
  IN IF below = 0
     THEN [list EXCEPT ![i].row = @ + 1]
     ELSE IF list[below].rounded
     THEN IF getSpriteAt(list, col - 1, row) = 0
             /\ getSpriteAt(list, col - 1, row + 1) = 0
          THEN [list EXCEPT ![i].col = @ - 1]
          ELSE IF getSpriteAt(list, col + 1, row) = 0
                  /\ getSpriteAt(list, col + 1, row + 1) = 0
          THEN [list EXCEPT ![i].col = @ + 1]
          ELSE [list EXCEPT ![i].isFalling = FALSE]
     ELSE IF list[i].explodable
     THEN list
     ELSE [list EXCEPT ![i].isFalling = FALSE]

\* The falling step with the two roll tests in the other order: right
\* before left.
FallRightFirst(list, i) ==
  LET col == list[i].col
      row == list[i].row
      below == getSpriteAt(list, col, row + 1)
  IN IF below = 0
     THEN [list EXCEPT ![i].isFalling = TRUE, ![i].row = @ + 1]
     ELSE IF list[below].rounded
     THEN IF getSpriteAt(list, col + 1, row) = 0
             /\ getSpriteAt(list, col + 1, row + 1) = 0
          THEN [list EXCEPT ![i].col = @ + 1]
          ELSE IF getSpriteAt(list, col - 1, row) = 0
                  /\ getSpriteAt(list, col - 1, row + 1) = 0
          THEN [list EXCEPT ![i].col = @ - 1]
          ELSE [list EXCEPT ![i].isFalling = FALSE]
     ELSE IF list[i].explodable
     THEN list
     ELSE [list EXCEPT ![i].isFalling = FALSE]

\* The falling step with the side cells left out of the roll tests: only
\* the cell diagonally below is looked at.
FallChecksDiagonalOnly(list, i) ==
  LET col == list[i].col
      row == list[i].row
      below == getSpriteAt(list, col, row + 1)
  IN IF below = 0
     THEN [list EXCEPT ![i].isFalling = TRUE, ![i].row = @ + 1]
     ELSE IF list[below].rounded
     THEN IF getSpriteAt(list, col - 1, row + 1) = 0
          THEN [list EXCEPT ![i].col = @ - 1]
          ELSE IF getSpriteAt(list, col + 1, row + 1) = 0
          THEN [list EXCEPT ![i].col = @ + 1]
          ELSE [list EXCEPT ![i].isFalling = FALSE]
     ELSE IF list[i].explodable
     THEN list
     ELSE [list EXCEPT ![i].isFalling = FALSE]

\* The callback with a roll that also goes one row down: the sprite ends in
\* the cell found empty under its side in place of the cell beside it.
FallRollsDiagonally(list, i) ==
  LET col == list[i].col
      row == list[i].row
      below == getSpriteAt(list, col, row + 1)
  IN IF below = 0
     THEN [list EXCEPT ![i].isFalling = TRUE, ![i].row = @ + 1]
     ELSE IF list[below].rounded
     THEN IF getSpriteAt(list, col - 1, row) = 0
             /\ getSpriteAt(list, col - 1, row + 1) = 0
          THEN [list EXCEPT ![i].col = @ - 1, ![i].row = @ + 1]
          ELSE IF getSpriteAt(list, col + 1, row) = 0
                  /\ getSpriteAt(list, col + 1, row + 1) = 0
          THEN [list EXCEPT ![i].col = @ + 1, ![i].row = @ + 1]
          ELSE [list EXCEPT ![i].isFalling = FALSE]
     ELSE IF list[i].explodable
     THEN list
     ELSE [list EXCEPT ![i].isFalling = FALSE]

\* index.js:450-486: the forEach callback for the sprite at index i.
Fall(list, i) ==
  LET col == list[i].col
      row == list[i].row
      below == getSpriteAt(list, col, row + 1)
  IN IF below = 0
     THEN [list EXCEPT ![i].isFalling = TRUE, ![i].row = @ + 1]
     ELSE IF list[below].rounded
     THEN IF getSpriteAt(list, col - 1, row) = 0
             /\ getSpriteAt(list, col - 1, row + 1) = 0
          THEN [list EXCEPT ![i].col = @ - 1]
          ELSE IF getSpriteAt(list, col + 1, row) = 0
                  /\ getSpriteAt(list, col + 1, row + 1) = 0
          THEN [list EXCEPT ![i].col = @ + 1]
          ELSE [list EXCEPT ![i].isFalling = FALSE]
     ELSE IF list[i].explodable
     THEN list
     ELSE [list EXCEPT ![i].isFalling = FALSE]

\* The falling pass from the last sprite of the ordered list to the first.
RECURSIVE FallRangeDescending(_, _, _)
FallRangeDescending(list, lo, hi) ==
  IF lo > hi THEN list
  ELSE IF lo = hi THEN IF list[lo].fallable THEN Fall(list, lo) ELSE list
  ELSE LET mid == (lo + hi) \div 2
           right == FallRangeDescending(list, mid + 1, hi)
       IN IF Len(right) >= 0 THEN FallRangeDescending(right, lo, mid)
          ELSE right

\* index.js:449: sprites.filter(fallable).forEach(...), over the indices
\* lo .. hi of the ordered list in turn (the range is halved to keep the
\* evaluation shallow).
RECURSIVE FallRange(_, _, _)
FallRange(list, lo, hi) ==
  IF lo > hi THEN list
  ELSE IF lo = hi THEN IF list[lo].fallable THEN Fall(list, lo) ELSE list
  ELSE LET mid == (lo + hi) \div 2
           left == FallRange(list, lo, mid)
       IN IF Len(left) >= 0 THEN FallRange(left, mid + 1, hi) ELSE left

\* The animation step with the frame added to the sprite's gid, as
\* index.js:520 does for the tile it draws, in place of leaving gid alone.
AnimateAdvancesGid(s) ==
  IF ~s.animated THEN s
  ELSE IF s.animId + 1 >= s.animIdMax
  THEN IF s.animCycle > 0
       THEN [s EXCEPT !.animId = 0,
                      !.animCycle = @ - 1,
                      !.animated = (s.animCycle - 1 /= 0)]
       ELSE [s EXCEPT !.animId = 0]
  ELSE [s EXCEPT !.animId = @ + 1, !.gid = @ + 1]

\* The animation step with the wrap test of index.js:493 made with > in
\* place of >=.
AnimateWrapsLate(s) ==
  IF ~s.animated THEN s
  ELSE IF s.animId + 1 > s.animIdMax
  THEN IF s.animCycle > 0
       THEN [s EXCEPT !.animId = 0,
                      !.animCycle = @ - 1,
                      !.animated = (s.animCycle - 1 /= 0)]
       ELSE [s EXCEPT !.animId = 0]
  ELSE [s EXCEPT !.animId = @ + 1]

\* index.js:490-504: the animation step of one sprite.
Animate(s) ==
  IF ~s.animated THEN s
  ELSE IF s.animId + 1 >= s.animIdMax
  THEN IF s.animCycle > 0
       THEN [s EXCEPT !.animId = 0,
                      !.animCycle = @ - 1,
                      !.animated = (s.animCycle - 1 /= 0)]
       ELSE [s EXCEPT !.animId = 0]
  ELSE [s EXCEPT !.animId = @ + 1]

\* index.js:418-507.  A throw in the input phase ends the call there.
update(list, pad) ==
  LET input == InputPhase(list, pad)
  IN IF input.threw THEN input
     ELSE LET ordered == orderSprites(input.sprites)
              fallen == FallRange(ordered, 1, Len(ordered))
          IN [sprites |-> [i \in 1..Len(fallen) |-> Animate(fallen[i])],
              threw |-> FALSE]

(***************************************************************************)
(* The program: image loading, setup, key handlers and the frame loop      *)
(* (index.js:58-76, 357-413, 581-657), on the built-in caves.              *)
(***************************************************************************)
MaxGames == 2    \* games played: the first MaxGames (cave, difficulty) pairs
MaxTicks == 12   \* update() calls explored
MaxHeld == 1     \* keys held down at the same time

\* The g-th (cave, difficulty) pair, caves first.
GameCave(g) == ((g - 1) % Len(rawCaveDatas)) + 1
GameDifficulty(g) == ((g - 1) \div Len(rawCaveDatas)) + 1

\* event.code of the keys pressed: the arrows, one button and a key
\* outside the handlers' switch.
Keys == {"ArrowRight", "ArrowLeft", "ArrowUp", "ArrowDown", "KeyQ", "KeyZ"}

\* The number of buttons down in a mask.
Held(pad) == Cardinality({b \in 0..7 : (pad \div (2 ^ b)) % 2 = 1})

Init ==
  /\ Globals
  /\ pc = "loading"
  /\ hex = <<>>
  /\ \E g \in 1..MaxGames :
       /\ caveId = GameCave(g)
       /\ difficultyId = GameDifficulty(g)

\* img.onload with setup() going on as soon as one image has loaded, in
\* place of the Promise.all of index.js:74.
ImageOnloadStartsOnFirst(i) ==
  /\ images[i] = "pending"
  /\ images' = [images EXCEPT ![i] = "loaded"]
  /\ IF pc = "loading"
     THEN \E s \in {SetupCave(cave, currentSeed, sprites, caveId, difficultyId)} :
            /\ cave' = s.cave
            /\ currentSeed' = s.seed
            /\ sprites' = s.sprites
            /\ rand' = s.rand
            /\ index' = s.index
            /\ pc' = IF s.threw THEN "failed" ELSE "running"
            /\ hex' = IF caveId - 1 \in 0..(Len(rawCaveDatas) - 1)
                      THEN rawCaveDatas[caveId] ELSE hex
            /\ loads' = loads + 1
     ELSE UNCHANGED <<pc, cave, currentSeed, sprites, rand, index, hex, loads>>
  /\ UNCHANGED <<caveId, difficultyId, joypad, time, cell, ticks,
                 renders>>

\* img.onload of image i (index.js:63-65).  With every image loaded
\* Promise.all resolves and, before any other event is handled, setup()
\* goes on from index.js:363 and the DOMContentLoaded handler calls start();
\* a throw in caveLoad rejects setup() and start() is not called.
ImageOnload(i) ==
  /\ images[i] = "pending"
  /\ images' = [images EXCEPT ![i] = "loaded"]
  /\ IF pc = "loading" /\ \A j \in DOMAIN images : j /= i => images[j] = "loaded"
     THEN \E s \in {SetupCave(cave, currentSeed, sprites, caveId, difficultyId)} :
            /\ cave' = s.cave
            /\ currentSeed' = s.seed
            /\ sprites' = s.sprites
            /\ rand' = s.rand
            /\ index' = s.index
            /\ pc' = IF s.threw THEN "failed" ELSE "running"
            /\ hex' = IF caveId - 1 \in 0..(Len(rawCaveDatas) - 1)
                      THEN rawCaveDatas[caveId] ELSE hex
            /\ loads' = loads + 1
     ELSE UNCHANGED <<pc, cave, currentSeed, sprites, rand, index, hex, loads>>
  /\ UNCHANGED <<caveId, difficultyId, joypad, time, cell, ticks,
                 renders>>

\* img.onerror of image i (index.js:66-69): Promise.all rejects, setup()
\* rejects and start() is never called.
ImageOnerror(i) ==
  /\ images[i] = "pending"
  /\ images' = [images EXCEPT ![i] = "error"]
  /\ pc' = IF pc = "loading" THEN "failed" ELSE pc
  /\ UNCHANGED <<caveId, difficultyId, hex, currentSeed, cave, sprites,
                 joypad, time, rand, index, cell, loads, ticks,
                 renders>>

\* index.js:581-611
keyDownHandler(code) ==
  /\ joypad' = SetBit(joypad, KeyMask(code))
  /\ UNCHANGED <<pc, images, caveId, difficultyId, hex, currentSeed, cave,
                 sprites, time, rand, index, cell, loads, ticks,
                 renders>>

\* index.js:613-643
keyUpHandler(code) ==
  /\ joypad' = ClearBit(joypad, KeyMask(code))
  /\ UNCHANGED <<pc, images, caveId, difficultyId, hex, currentSeed, cave,
                 sprites, time, rand, index, cell, loads, ticks,
                 renders>>

\* The frame callback with the accumulator reduced by the budget in place of
\* the reset of index.js:402.
loopCarriesRemainder(deltaTime) ==
  /\ pc = "running"
  /\ IF time + deltaTime >= timer
     THEN \E u \in {update(sprites, joypad)} :
            /\ time' = time + deltaTime - timer
            /\ sprites' = u.sprites
            /\ pc' = IF u.threw THEN "crashed" ELSE pc
            /\ ticks' = ticks + 1
            /\ renders' = IF u.threw THEN renders ELSE renders + 1
     ELSE /\ time' = time + deltaTime
          /\ UNCHANGED <<sprites, pc, ticks, renders>>
  /\ UNCHANGED <<images, caveId, difficultyId, hex, currentSeed, cave,
                 joypad, rand, index, cell, loads>>

\* index.js:390-411: one frame callback, deltaTime milliseconds after the
\* previous one.  A throw in update() ends the callback before render() and
\* before it requests the next frame.
loop(deltaTime) ==
  /\ pc = "running"
  /\ IF time + deltaTime >= timer
     THEN \E u \in {update(sprites, joypad)} :
            /\ time' = 0
            /\ sprites' = u.sprites
            /\ pc' = IF u.threw THEN "crashed" ELSE pc
            /\ ticks' = ticks + 1
            /\ renders' = IF u.threw THEN renders ELSE renders + 1
     ELSE /\ time' = time + deltaTime
          /\ UNCHANGED <<sprites, pc, ticks, renders>>
  /\ UNCHANGED <<images, caveId, difficultyId, hex, currentSeed, cave,
                 joypad, rand, index, cell, loads>>

\* Milliseconds between two frame callbacks.
FrameDeltas == {timer}

Next ==
  \/ \E i \in DOMAIN images : ImageOnload(i)
  \/ \E i \in DOMAIN images : ImageOnerror(i)
  \/ \E code \in Keys :
       /\ Held(SetBit(joypad, KeyMask(code))) <= MaxHeld
       /\ keyDownHandler(code)
  \/ \E code \in Keys : keyUpHandler(code)
  \/ ticks < MaxTicks /\ \E deltaTime \in FrameDeltas : loop(deltaTime)

Spec == Init /\ [][Next]_vars

(***************************************************************************)
(* The program started on a cave of the table and on a cave number past    *)
(* its end, for which rawCaveDatas[caveId - 1] is undefined and            *)
(* index.js:156 throws inside setup().                                     *)
(***************************************************************************)
StartCaves == {1, Len(rawCaveDatas) + 1}

InitStart ==
  /\ Globals
  /\ pc = "loading"
  /\ hex = <<>>
  /\ caveId \in StartCaves
  /\ difficultyId = 1

SpecStart == InitStart /\ [][Next]_vars

(***************************************************************************)
(* Decoding specification: setup's decode and expansion for every cave     *)
(* identifier and difficulty, the out-of-range ones included, and the      *)
(* same steps run again on the globals a first run left.                   *)
(***************************************************************************)
MaxCaveId == 21
MaxDifficultyId == 6
MaxReloadSpan == 1

InitDecode ==
  /\ Globals
  /\ pc = "setup"
  /\ hex = <<>>
  /\ caveId \in 0..MaxCaveId
  /\ difficultyId \in 0..MaxDifficultyId

\* index.js:363-380 for the cave id and difficulty, on the current globals.
SetupWith(id, difficulty) ==
  /\ caveId' = id
  /\ difficultyId' = difficulty
  /\ \E s \in {SetupCave(cave, currentSeed, sprites, id, difficulty)} :
       /\ cave' = s.cave
       /\ currentSeed' = s.seed
       /\ sprites' = s.sprites
       /\ rand' = s.rand
       /\ index' = s.index
       /\ pc' = IF s.threw THEN "failed" ELSE "running"
  /\ hex' = IF id - 1 \in 0..(Len(rawCaveDatas) - 1)
            THEN rawCaveDatas[id] ELSE hex
  /\ loads' = loads + 1
  /\ UNCHANGED <<images, joypad, time, cell, ticks,
                 renders>>

\* setup() from index.js:363 on, with the images loaded.
RunSetup ==
  /\ pc = "setup"
  /\ SetupWith(caveId, difficultyId)

\* The same steps a second time, for one of the next caves or the next
\* difficulties, starting from the grid, generator state and sprite list
\* the first run left.
Reload ==
  /\ pc = "running"
  /\ loads = 1
  /\ \E k \in 1..MaxReloadSpan :
       \/ /\ caveId + k <= MaxCaveId
          /\ SetupWith(caveId + k, difficultyId)
       \/ /\ difficultyId + k <= MaxDifficultyId
          /\ SetupWith(caveId, difficultyId + k)

NextDecode == RunSetup \/ Reload

SpecDecode == InitDecode /\ [][NextDecode]_vars

(***************************************************************************)
(* Fill specification: the seeding and the fill pass of caveLoad           *)
(* (index.js:158-184) run one cell at a time, for every built-in cave.     *)
(***************************************************************************)
MaxFillDifficulty == 1

InitFill ==
  /\ Globals
  /\ pc = "seed"
  /\ hex = <<>>
  /\ caveId \in 1..Len(rawCaveDatas)
  /\ difficultyId \in 1..MaxFillDifficulty

\* index.js:156-158
SeedStep ==
  /\ pc = "seed"
  /\ hex' = rawCaveDatas[caveId]
  /\ currentSeed' = setSeed(HexAt(rawCaveDatas[caveId], \h04 + difficultyId - 1))
  /\ pc' = "fill"
  /\ UNCHANGED <<images, caveId, difficultyId, cave, sprites, joypad, time,
                 rand, index, cell, loads, ticks,
                 renders>>

\* index.js:162-182 for the next cell in row-major order.
FillStep ==
  /\ pc = "fill"
  /\ cell < rows * cols
  /\ \E s \in {FillCell(hex, DecodeState(cave, currentSeed),
                        cell \div cols, cell % cols)} :
       /\ cave' = s.cave
       /\ currentSeed' = s.seed
       /\ rand' = IF s.seed = currentSeed THEN rand ELSE s.rand
  /\ cell' = cell + 1
  /\ UNCHANGED <<pc, images, caveId, difficultyId, hex, sprites, joypad,
                 time, index, loads, ticks,
                 renders>>

NextFill == SeedStep \/ FillStep

SpecFill == InitFill /\ [][NextFill]_vars

(***************************************************************************)
(* Stream specification: setup and the first frames on byte sequences      *)
(* made of a built-in header and one instruction, complete, without its    *)
(* sentinel, or cut short.                                                 *)
(***************************************************************************)
MaxLineLen == 2
MaxRectLen == 3
MaxStreamTicks == 1

\* The header of cave 1 (offsets 0x00 .. 0x1F).
Header == SubSeq(rawCaveDatas[1], 1, \h20)

\* opcode, column byte, row byte: a boulder (kind 0)
SingleInstructions ==
  {<<\h10, x, y>> : x \in {0, 20, 40, 255}, y \in {1, 12, 23, 24}}

\* opcode, column byte, row byte, length, direction: a line of brick
\* (kind 1) from the middle of the grid and from its lower right corner
LineInstructions ==
  {<<\h42, p[1], p[2], n, d>> :
     p \in {<<20, 12>>, <<38, 22>>}, n \in 0..MaxLineLen, d \in 0..7}

Instructions == SingleInstructions \cup LineInstructions

\* opcode, column byte, row byte, width, height, fill: a rectangle of brick
\* filled with diamond (kind 2)
FilledRectInstructions ==
  {<<\h82, p[1], p[2], w, hh, \h14>> :
     p \in {<<20, 12>>, <<38, 22>>}, w \in 0..MaxRectLen, hh \in 0..MaxRectLen}

\* opcode, column byte, row byte, width, height: a rectangle of brick
\* (kind 3)
RectInstructions ==
  {<<\hC2, p[1], p[2], w, hh>> :
     p \in {<<20, 12>>, <<38, 22>>}, w \in 0..MaxRectLen, hh \in 0..MaxRectLen}

Streams ==
  {Header \o i \o <<\hFF>> :
     i \in Instructions \cup FilledRectInstructions \cup RectInstructions}
  \cup UNION {{Header \o SubSeq(i, 1, k) : k \in 0..Len(i)} : i \in Instructions}

InitStream ==
  /\ Globals
  /\ pc = "setup"
  /\ caveId = 1
  /\ difficultyId = 1
  /\ hex \in Streams

\* setup() from index.js:363 on, with hex as the table entry of the cave.
StreamSetup ==
  /\ pc = "setup"
  /\ \E s \in {SetupStream(hex, cave, currentSeed, sprites, difficultyId)} :
       /\ cave' = s.cave
       /\ currentSeed' = s.seed
       /\ sprites' = s.sprites
       /\ rand' = s.rand
       /\ index' = s.index
       /\ pc' = IF s.threw THEN "failed" ELSE "running"
  /\ loads' = loads + 1
  /\ UNCHANGED <<images, caveId, difficultyId, hex, joypad, time, cell, ticks,
                 renders>>

NextStream ==
  \/ StreamSetup
  \/ ticks < MaxStreamTicks /\ \E deltaTime \in FrameDeltas : loop(deltaTime)

SpecStream == InitStream /\ [][NextStream]_vars

(***************************************************************************)
(* Input specification: setup on byte sequences that place rockford in     *)
(* the middle of the grid with an object of each kind around it, the keys   *)
(* pressed and released in any number, and the first frames.               *)
(***************************************************************************)
MaxInputHeld == 2
MaxInputTicks == 1

\* The object codes put around rockford, four to a scene: up, right, down,
\* left.  \h32 has no sprite type.
SceneCodes ==
  << <<\h00, \h01, \h14, \h10>>,
     <<\h02, \h03, \h04, \h07>>,
     <<\h08, \h30, \h3A, \h32>> >>

\* The cave the scenes are set in, and its header (offsets 0x00 .. 0x1F):
\* the first intermission, an empty cave with few objects.
SceneCave == 17
SceneHeader == SubSeq(rawCaveDatas[SceneCave], 1, \h20)

\* Scene k turned by r quarter turns: rockford (kind 0, code \h38) at column
\* byte 20, row byte 12, then one kind 0 instruction per neighbour cell.
Scene(k, r) ==
  LET code(n) == SceneCodes[k][((n + r) % 4) + 1]
  IN SceneHeader \o <<\h38, 20, 12>>
       \o <<code(0), 20, 11>> \o <<code(1), 21, 12>>
       \o <<code(2), 20, 13>> \o <<code(3), 19, 12>>
       \o <<\hFF>>

Scenes == {Scene(k, r) : k \in 1..Len(SceneCodes), r \in 0..3}

InitInput ==
  /\ Globals
  /\ pc = "setup"
  /\ caveId = SceneCave
  /\ difficultyId = 1
  /\ hex \in Scenes

NextInput ==
  \/ StreamSetup
  \/ \E code \in Keys : keyDownHandler(code)
  \/ \E code \in Keys : keyUpHandler(code)
  \/ /\ ticks < MaxInputTicks
     /\ Held(joypad) <= MaxInputHeld
     /\ \E deltaTime \in FrameDeltas : loop(deltaTime)

SpecInput == InitInput /\ [][NextInput]_vars

(***************************************************************************)
(* Scene specification: setup on byte sequences that set boulders and      *)
(* diamonds over empty cells, over rounded objects with walls or nothing   *)
(* beside them, over each other and over fireflies, with an inbox aside;   *)
(* then the keys and the frames, short ones and long ones.                 *)
(***************************************************************************)
MaxSceneTicks == 12

\* A kind 0 instruction that sets code at (col, row).
Place(code, col, row) == <<code, col, row + 2>>

\* The object set four rows under the boulder of column 5, by scene:
\* steel, dirt, firefly, butterfly, brick, boulder, diamond, nothing.
Occupants == <<\h07, \h01, \h08, \h30, \h02, \h10, \h14, \h00>>

\* A boulder at (5, 5), nothing in the three cells under it, and the
\* occupant at (5, 9).
ColumnCells(occupant) ==
  Place(\h10, 5, 5) \o Place(\h00, 5, 6) \o Place(\h00, 5, 7)
    \o Place(\h00, 5, 8) \o Place(occupant, 5, 9)

\* Bit b of the side pattern n: a wall (steel) in that cell, else nothing.
Side(n, b) == IF (n \div (2 ^ b)) % 2 = 1 THEN \h07 ELSE \h00

\* upper at (col, row) on lower at (col, row + 1), steel under lower, and
\* the side pattern n: left, below left, right, below right.
RollCells(upper, lower, col, row, n) ==
  Place(upper, col, row) \o Place(lower, col, row + 1)
    \o Place(\h07, col, row + 2)
    \o Place(Side(n, 0), col - 1, row) \o Place(Side(n, 1), col - 1, row + 1)
    \o Place(Side(n, 2), col + 1, row) \o Place(Side(n, 3), col + 1, row + 1)

\* upper at (col, row) on lower at (col, row + 1) with nothing under lower;
\* walls on both sides of upper when walled.
StackCells(upper, lower, col, row, walled) ==
  Place(upper, col, row) \o Place(lower, col, row + 1)
    \o Place(\h00, col, row + 2)
    \o Place(IF walled THEN \h07 ELSE \h00, col - 1, row)
    \o Place(IF walled THEN \h07 ELSE \h00, col + 1, row)

\* Scene n: the column with occupant n, three rolling arrangements with
\* side pattern n, two stacks, one object of each remaining type, the inbox
\* with dirt on its left and a diamond, resting on steel, under it.
SceneCells(n) ==
  ColumnCells(Occupants[(n % Len(Occupants)) + 1])
    \o RollCells(\h10, \h10, 12, 10, n)
    \o RollCells(\h14, \h02, 18, 10, n)
    \o RollCells(\h10, \h14, 24, 10, 15 - n)
    \o StackCells(\h10, \h10, 30, 10, n % 2 = 1)
    \o StackCells(\h14, \h10, 34, 10, n % 2 = 0)
    \o Place(\h03, 10, 2) \o Place(\h04, 12, 2) \o Place(\h3A, 14, 2)
    \o Place(\h25, 36, 2)
    \o Place(\h01, 35, 2) \o Place(\h14, 36, 3) \o Place(\h07, 36, 4)

PhysicsScene(n) == SceneHeader \o SceneCells(n) \o <<\hFF>>

PhysicsScenes == {PhysicsScene(n) : n \in 0..15}

\* Milliseconds between two frame callbacks: half the budget, and more than
\* twice the budget.
SceneDeltas == {timer \div 2, 2 * timer + timer \div 2}

InitScene ==
  /\ Globals
  /\ pc = "setup"
  /\ caveId = SceneCave
  /\ difficultyId = 1
  /\ hex \in PhysicsScenes

\* event.code of the keys pressed while a scene runs: two arrows and a key
\* outside the handlers' switch.
SceneKeys == {"ArrowLeft", "ArrowDown", "KeyZ"}

NextScene ==
  \/ StreamSetup
  \/ \E code \in SceneKeys :
       /\ Held(SetBit(joypad, KeyMask(code))) <= MaxHeld
       /\ keyDownHandler(code)
  \/ \E code \in SceneKeys : keyUpHandler(code)
  \/ ticks < MaxSceneTicks /\ \E deltaTime \in SceneDeltas : loop(deltaTime)

SpecScene == InitScene /\ [][NextScene]_vars

(***************************************************************************)
(* Pass specification: caveLoad with its instruction pass                  *)
(* (index.js:193-245) run one instruction at a time, for every built-in    *)
(* cave and for two byte sequences that hold 0xFF as an argument byte.     *)
(***************************************************************************)
\* A filled rectangle without interior whose fill byte is 0xFF, and a
\* single object whose column byte is 0xFF, each followed by one more
\* object and the sentinel.
SentinelArguments ==
  {SceneHeader \o <<\h82, 5, 5, 2, 2, \hFF, \h10, 8, 8, \hFF>>,
   SceneHeader \o <<\h10, \hFF, 12, \h14, 8, 8, \hFF>>}

InitPass ==
  /\ Globals
  /\ pc = "setup"
  /\ difficultyId = 1
  /\ \/ caveId \in 1..Len(rawCaveDatas) /\ hex = rawCaveDatas[caveId]
     \/ caveId = SceneCave /\ hex \in SentinelArguments

\* index.js:156-192: the seed, the fill pass and index = 0x20.
PassStart ==
  /\ pc = "setup"
  /\ \E filled \in {FillRows(hex,
                      [DecodeState(cave, currentSeed) EXCEPT
                         !.seed = setSeed(HexAt(hex, \h04 + difficultyId - 1))],
                      0)} :
       /\ cave' = filled.cave
       /\ currentSeed' = filled.seed
       /\ rand' = filled.rand
       /\ index' = IF filled.threw THEN index ELSE \h20
       /\ pc' = IF filled.threw THEN "failed" ELSE "pass"
  /\ UNCHANGED <<images, caveId, difficultyId, hex, sprites, joypad, time,
                 cell, loads, ticks, renders>>

\* index.js:193-245: one turn of the while loop, the test found true.
InstructionStep ==
  /\ pc = "pass"
  /\ HexAt(hex, index) /= \hFF
  /\ \E next \in {Instruction(hex, [DecodeState(cave, currentSeed) EXCEPT
                                      !.rand = rand, !.index = index])} :
       /\ cave' = next.cave
       /\ index' = next.index
       /\ pc' = IF next.threw THEN "failed" ELSE "pass"
  /\ UNCHANGED <<images, caveId, difficultyId, hex, currentSeed, sprites,
                 joypad, time, rand, cell, loads, ticks, renders>>

\* index.js:193 with the test found false: caveLoad returns and setup()
\* expands the grid (index.js:366-380).
PassEnd ==
  /\ pc = "pass"
  /\ HexAt(hex, index) = \hFF
  /\ sprites' = ExpandSprites(cave)
  /\ loads' = loads + 1
  /\ pc' = "running"
  /\ UNCHANGED <<images, caveId, difficultyId, hex, currentSeed, cave,
                 joypad, time, rand, index, cell, ticks, renders>>

NextPass == PassStart \/ InstructionStep \/ PassEnd

\* A step of the call: it is in setup() or in the loop before the step and
\* the step changes its position.
PassProgress ==
  /\ pc \in {"setup", "pass"}
  /\ pc' \in {"pass", "running", "failed"}
  /\ index' \in 0..(Len(hex) + 6)

\* caveLoad is a synchronous call: once started it goes on until it returns
\* or throws, and no other event is handled meanwhile.
SpecPass == InitPass /\ [][NextPass]_vars /\ WF_<<pc, index>>(PassProgress)

(***************************************************************************)
(* Border specification: setup for every built-in cave at every            *)
(* difficulty, and the keys and the frames for the caves whose inbox is    *)
(* beside the frame of the grid, at the first difficulties.                *)
(***************************************************************************)
MaxBorderTicks == 13
MaxBorderDifficulty == 1

\* Caves 4, 5 and 16 have the inbox at (1, 1), cave 7 at (20, 1).
BorderCaves == {4, 5, 7, 16}

\* event.code of the keys pressed: towards the frame from (1, 1), and a key
\* outside the handlers' switch.
BorderKeys == {"ArrowLeft", "ArrowUp", "KeyZ"}

InitBorder ==
  /\ Globals
  /\ pc = "setup"
  /\ hex = <<>>
  /\ caveId \in 1..Len(rawCaveDatas)
  /\ difficultyId \in 1..5

\* The games whose keys and frames are followed.
BorderGame == caveId \in BorderCaves /\ difficultyId <= MaxBorderDifficulty

NextBorder ==
  \/ RunSetup
  \/ /\ BorderGame
     /\ \E code \in BorderKeys :
          /\ Held(SetBit(joypad, KeyMask(code))) <= MaxHeld
          /\ keyDownHandler(code)
  \/ /\ BorderGame
     /\ \E code \in BorderKeys : keyUpHandler(code)
  \/ /\ BorderGame
     /\ ticks < MaxBorderTicks
     /\ \E deltaTime \in FrameDeltas : loop(deltaTime)

SpecBorder == InitBorder /\ [][NextBorder]_vars

(***************************************************************************)
(* Properties of the sprite list (specification Spec)                      *)
(***************************************************************************)
\* The (col, row) pairs the sprites of a list occupy.
Occupied(list) == {<<list[i].col, list[i].row>> : i \in 1..Len(list)}

\* C1 -- Sprite exclusivity: after setup() and after every update() tick,
\* under any joypad mask, no two sprites have the same (col, row).
SpriteExclusivity == Cardinality(Occupied(sprites)) = Len(sprites)

\* The last tick explored is over, the inbox has turned into rockford,
\* rockford has walked off the inbox cell and eaten what was in its way,
\* and a boulder lies on a cell no boulder was decoded into.
SpriteExclusivityWitness ==
  /\ pc = "running"
  /\ ticks = MaxTicks
  /\ \E i \in 1..Len(sprites) :
       /\ sprites[i].name = "rockford"
       /\ cave[sprites[i].row][sprites[i].col] /= typeByName("inbox").code
  /\ Len(sprites) < Len(ExpandSprites(cave))
  /\ \E i \in 1..Len(sprites) :
       /\ sprites[i].name = "boulder"
       /\ cave[sprites[i].row][sprites[i].col] /= typeByName("boulder").code

(***************************************************************************)
(* Properties of the decode (specification SpecDecode)                     *)
(***************************************************************************)
\* The cells of the outer frame of the grid.
Border ==
  {p \in (0..(rows - 1)) \X (0..(cols - 1)) :
     p[1] \in {0, rows - 1} \/ p[2] \in {0, cols - 1}}

\* A built-in cave has been decoded for one of the five difficulties.
BuiltInDecoded ==
  /\ pc = "running"
  /\ caveId \in 1..Len(rawCaveDatas)
  /\ difficultyId \in 1..5

\* The caves whose instruction pass stores the outbox on the frame.
BorderOutboxCaves == {3, 5, 7, 8, 10, 12, 14, 16}

\* C2 as stated -- Border invariant: after caveLoad for every built-in
\* cave and every difficulty 1..5, every cell with row in {0, 21} or col in
\* {0, 39} holds the steel-wall code 0x07.
BorderAllSteel ==
  BuiltInDecoded => \A p \in Border : cave[p[1]][p[2]] = \h07

\* C2 -- Border invariant, as the code has it: after caveLoad for every
\* built-in cave and every difficulty 1..5, every border cell holds the
\* steel-wall code 0x07 or the outbox code 0x04; at most one border cell
\* holds 0x04, and one does exactly in caves 3, 5, 7, 8, 10, 12, 14, 16.
BorderSteelOrOutbox ==
  BuiltInDecoded =>
    LET open == {p \in Border : cave[p[1]][p[2]] /= \h07}
    IN /\ \A p \in open : cave[p[1]][p[2]] = \h04
       /\ Cardinality(open) <= 1
       /\ (open /= {}) <=> (caveId \in BorderOutboxCaves)

\* Cave 3 decoded: its outbox sits in the right border column.
BorderOutboxWitness ==
  /\ BuiltInDecoded
  /\ caveId = 3
  /\ cave[18][cols - 1] = \h04
  /\ \A p \in Border \ {<<18, cols - 1>>} : cave[p[1]][p[2]] = \h07

\* C3 -- Decode determinism: for fixed (caveId, difficultyId), caveLoad
\* followed by the sprite expansion ends in the same grid and the same
\* sprite list whatever grid, sprite list and generator state it started
\* from: the ones a run from the initial globals ends in.
DecodeDeterminism ==
  pc = "running" =>
    LET fresh == SetupCave(EmptyCave, U32(0), <<>>, caveId, difficultyId)
    IN cave = fresh.cave /\ sprites = fresh.sprites

\* A second run, started from the grid, sprites and generator state the
\* decode of another cave or difficulty left, has ended.
DecodeDeterminismWitness ==
  /\ pc = "running"
  /\ loads = 2
  /\ caveId \in 1..Len(rawCaveDatas)
  /\ Len(sprites) > 0

\* C6 -- InvalidCaveId: a caveLoad with a cave identifier outside 1..20
\* fails, and the grid, the generator state (and the sprite list) are then
\* exactly what they were before the call.
InvalidCaveIdFails ==
  [][(loads' /= loads /\ caveId' \notin 1..20)
       => /\ pc' = "failed"
          /\ cave' = cave
          /\ currentSeed' = currentSeed
          /\ sprites' = sprites]_vars

\* Cave 21 was asked for after cave 20 had been decoded: the load failed
\* and the grid, generator state and sprites of cave 20 are still there.
InvalidCaveIdWitness ==
  /\ pc = "failed"
  /\ loads = 2
  /\ caveId = Len(rawCaveDatas) + 1
  /\ cave /= EmptyCave
  /\ currentSeed /= U32(0)
  /\ Len(sprites) > 0

\* C7 -- Difficulty range: a caveLoad with a difficulty identifier outside
\* 1..5 (0 or 6, say) fails instead of decoding a grid.
DifficultyOutOfRangeFails ==
  (loads > 0 /\ difficultyId \notin 1..5) => pc = "failed"

(***************************************************************************)
(* Properties of the generator and the fill pass (specification SpecFill)  *)
(***************************************************************************)
\* The cell with row-major number k is inside the frame.
Interior(k) ==
  /\ k \div cols \notin {0, rows - 1}
  /\ k % cols \notin {0, cols - 1}

\* T1 + ... + Tk for the header bytes T1..T4 = h[0x1C..0x1F].
RECURSIVE CumulativeBound(_, _)
CumulativeBound(h, k) ==
  IF k = 0 THEN 0 ELSE CumulativeBound(h, k - 1) + h[\h1C + k]

\* The code of the first cumulative bound above v; dirt when there is none.
FirstBound(h, v) ==
  LET above == {k \in 1..4 : v < CumulativeBound(h, k)}
  IN IF above = {} THEN \h01
     ELSE h[\h18 + (CHOOSE k \in above : \A j \in above : k <= j)]

\* C4 -- Random-fill ordering: an interior cell drawn with byte v receives
\* hex[0x18] if v < T1, else hex[0x19] if v < T1+T2, else hex[0x1A] if
\* v < T1+T2+T3, else hex[0x1B] if v < T1+T2+T3+T4, and dirt (0x01)
\* otherwise, for T1..T4 = hex[0x1C..0x1F]; this for the cell the fill
\* pass wrote last and, once the pass is over, for every v in 0..255.
RandomFillOrdering ==
  /\ (pc = "fill" /\ cell > 0 /\ Interior(cell - 1))
       => cave[(cell - 1) \div cols][(cell - 1) % cols] = FirstBound(hex, rand)
  /\ (pc = "fill" /\ cell = rows * cols)
       => \A v \in 0..255 : RandomObject(hex, v) = FirstBound(hex, v)

\* The last interior cell was drawn between the first and the second
\* bound and holds the second object, which is not the first one.
RandomFillOrderingWitness ==
  /\ pc = "fill"
  /\ cell > 0
  /\ Interior(cell - 1)
  /\ rand >= hex[\h1D]
  /\ rand < hex[\h1D] + hex[\h1E]
  /\ hex[\h1A] /= hex[\h19]
  /\ cave[(cell - 1) \div cols][(cell - 1) % cols] = hex[\h1A]

\* Byte k (0 = lowest) of a number below 2^31.
ByteOf(n, k) == (n \div (256 ^ k)) % 256

\* The four bytes, lowest first, of a generator state.
StateBytes(x) ==
  <<x.lo % 256, x.lo \div 256, x.hi % 256, x.hi \div 256>>

\* (1664525 * x + 1013904223) mod 2^32 by long multiplication on bytes,
\* as the bytes of the result, lowest first.
LcgBytes(x) ==
  LET b == StateBytes(x)
      a(k) == ByteOf(1664525, k)
      c(k) == ByteOf(1013904223, k)
      t0 == a(0) * b[1] + c(0)
      t1 == a(0) * b[2] + a(1) * b[1] + c(1) + (t0 \div 256)
      t2 == a(0) * b[3] + a(1) * b[2] + a(2) * b[1] + c(2) + (t1 \div 256)
      t3 == a(0) * b[4] + a(1) * b[3] + a(2) * b[2] + a(3) * b[1] + c(3)
            + (t2 \div 256)
  IN <<t0 % 256, t1 % 256, t2 % 256, t3 % 256>>

\* C5 -- PRNG recurrence: setSeed(s) sets the state to s mod 2^32; each
\* randInt255() replaces the state x by (1664525 * x + 1013904223) mod 2^32
\* and returns that value mod 256; a border cell draws nothing; the state
\* stays an integer in 0 .. 2^32 - 1.
PrngRecurrence ==
  [][/\ pc = "seed"
          => StateBytes(currentSeed') = <<hex'[\h04 + difficultyId], 0, 0, 0>>
     /\ (pc = "fill" /\ Interior(cell))
          => /\ StateBytes(currentSeed') = LcgBytes(currentSeed)
             /\ rand' = LcgBytes(currentSeed)[1]
     /\ (pc = "fill" /\ ~Interior(cell)) => currentSeed' = currentSeed
     /\ currentSeed'.hi \in 0..(Half - 1)
     /\ currentSeed'.lo \in 0..(Half - 1)]_vars

\* Two draws in a row, the first from a state with bit 31 set.
PrngRecurrenceWitness ==
  /\ pc = "fill"
  /\ cell > cols + 2
  /\ Interior(cell - 1)
  /\ currentSeed.hi >= Half \div 2
  /\ rand = currentSeed.lo % 256

(***************************************************************************)
(* Properties of the instruction pass (specification SpecStream)           *)
(***************************************************************************)
\* Bytes an instruction takes, by the top two bits of its opcode.
InstructionLength(b) == IF b \div 64 = 0 THEN 3 ELSE IF b \div 64 = 2 THEN 6 ELSE 5

\* Some opcode position at or after offset p of h holds 0xFF.
RECURSIVE SentinelFrom(_, _)
SentinelFrom(h, p) ==
  IF p >= Len(h) THEN FALSE
  ELSE IF h[p + 1] = \hFF THEN TRUE
  ELSE SentinelFrom(h, p + InstructionLength(h[p + 1]))

\* C8 -- Missing sentinel: for a byte sequence with no 0xFF at an opcode
\* position the instruction pass ends, with a failure and without a grid
\* handed to the engine, and no tick runs afterwards.
MissingSentinelFails ==
  (pc /= "setup" /\ ~SentinelFrom(hex, \h20))
    => /\ pc = "failed"
       /\ sprites = <<>>
       /\ ticks = 0

\* A complete line instruction with no sentinel after it: the line was
\* drawn, the pass read past the end and setup failed.
MissingSentinelWitness ==
  /\ pc = "failed"
  /\ hex = Header \o <<\h42, 20, 12, 2, 2>>
  /\ cave[10][20] = \h02
  /\ cave[10][21] = \h02
  /\ index = Len(hex)
  /\ ticks = 0

\* The direction table of the line instruction, from the direction byte.
DirectionTable ==
  [d \in 0..7 |->
     CASE d = 0 -> <<0, -1>>
       [] d = 1 -> <<1, -1>>
       [] d = 2 -> <<1, 0>>
       [] d = 3 -> <<1, 1>>
       [] d = 4 -> <<0, 1>>
       [] d = 5 -> <<-1, 1>>
       [] d = 6 -> <<-1, 0>>
       [] d = 7 -> <<-1, -1>>]

\* The cells <<col, row>> of a line of n cells from (x, y - 2) in
\* direction d.
LineCells(x, y, n, d) ==
  {<<x + i * DirectionTable[d][1], (y - 2) + i * DirectionTable[d][2]>> :
     i \in 0..(n - 1)}

\* The cells the complete instruction at offset p of h writes (a line with
\* a direction byte above 7 aside).
InstructionCells(h, p) ==
  LET kind == h[p + 1] \div 64
      x == h[p + 2]
      y == h[p + 3]
  IN IF kind = 0 THEN {<<x, y - 2>>}
     ELSE IF kind = 1
     THEN IF h[p + 5] \in 0..7 THEN LineCells(x, y, h[p + 4], h[p + 5]) ELSE {}
     ELSE {<<x + i, (y - 2) + j>> :
             i \in 0..(h[p + 4] - 1), j \in 0..(h[p + 5] - 1)}

\* A complete instruction at or after offset p of h writes a cell with its
\* row outside 0..21 or its column outside 0..39.
RECURSIVE WritesOutsideFrom(_, _)
WritesOutsideFrom(h, p) ==
  IF p >= Len(h) THEN FALSE
  ELSE IF h[p + 1] = \hFF THEN FALSE
  ELSE IF p + InstructionLength(h[p + 1]) > Len(h) THEN FALSE
  ELSE \/ \E q \in InstructionCells(h, p) :
            q[1] \notin 0..(cols - 1) \/ q[2] \notin 0..(rows - 1)
       \/ WritesOutsideFrom(h, p + InstructionLength(h[p + 1]))

\* The grid has rows 0..21 of columns 0..39 and nothing else.
GridInBounds ==
  /\ DOMAIN cave = 0..(rows - 1)
  /\ \A r \in DOMAIN cave : DOMAIN cave[r] = 0..(cols - 1)

\* C9 -- Out-of-bounds geometry: when a decoded instruction would write a
\* cell with row outside 0..21 or column outside 0..39, the decode fails,
\* the grid is not extended beyond 40 columns by 22 rows, and the engine
\* never starts ticking.
OutOfBoundsFails ==
  (pc /= "setup" /\ WritesOutsideFrom(hex, \h20))
    => /\ pc = "failed"
       /\ GridInBounds
       /\ ticks = 0

\* The grid the fill pass alone leaves for the header of h.
FillOnly(h) ==
  Decode(SubSeq(h, 1, \h20) \o <<\hFF>>, DecodeState(EmptyCave, U32(0)), 1).cave

\* C10 -- Line instruction: an instruction of kind 1 with object code c,
\* column byte x, row byte y, length n and direction d in 0..7 sets exactly
\* the n cells (x + i*dx, (y-2) + i*dy), i in 0..n-1, to c, with (dx, dy)
\* from the table 0=up(0,-1), 1=up-right(1,-1), 2=right(1,0),
\* 3=down-right(1,1), 4=down(0,1), 5=down-left(-1,1), 6=left(-1,0),
\* 7=up-left(-1,-1), and advances the stream by 5 bytes.
LineInstructionExact ==
  (/\ pc = "running"
   /\ Len(hex) = \h20 + 6
   /\ hex[\h21] \div 64 = 1
   /\ hex[\h25] \in 0..7
   /\ hex[\h26] = \hFF)
    => LET line == LineCells(hex[\h22], hex[\h23], hex[\h24], hex[\h25])
           base == FillOnly(hex)
       IN /\ index = \h20 + 5
          /\ DOMAIN cave = DOMAIN base
          /\ \A r \in DOMAIN cave :
               /\ DOMAIN cave[r] =
                    DOMAIN base[r] \cup {q[1] : q \in {p \in line : p[2] = r}}
               /\ \A col \in DOMAIN cave[r] :
                    cave[r][col] = IF <<col, r>> \in line
                                   THEN hex[\h21] % 64
                                   ELSE base[r][col]

\* A line of two bricks from (20, 10) down-left has been decoded; the
\* sentinel was read at offset 0x25.
LineInstructionWitness ==
  /\ pc = "running"
  /\ hex = Header \o <<\h42, 20, 12, 2, 5, \hFF>>
  /\ cave[10][20] = \h02
  /\ cave[11][19] = \h02
  /\ cave[11][21] = FillOnly(hex)[11][21]
  /\ index = \h20 + 5

\* The grid is the one the fill pass alone leaves for the header of h with
\* exactly the cells <<col, row>> of DOMAIN written overwritten, each by
\* the code written gives it.
OnlyWritten(h, written) ==
  LET base == FillOnly(h)
  IN /\ DOMAIN cave = DOMAIN base
     /\ \A r \in DOMAIN cave :
          /\ DOMAIN cave[r] =
               DOMAIN base[r] \cup {q[1] : q \in {p \in DOMAIN written : p[2] = r}}
          /\ \A col \in DOMAIN cave[r] :
               cave[r][col] = IF <<col, r>> \in DOMAIN written
                              THEN written[<<col, r>>]
                              ELSE base[r][col]

\* The cells of the w-by-hh rectangle anchored at column x, row y - 2.
RectCells(x, y, w, hh) ==
  {<<x + i, (y - 2) + j>> : i \in 0..(w - 1), j \in 0..(hh - 1)}

\* C11 -- Filled-rectangle instruction (kind 2): for width w and height h,
\* every cell of the w-by-h rectangle anchored at (col, row) whose local x
\* is 0 or w-1 or whose local y is 0 or h-1 gets the primary object code,
\* every other cell of the rectangle gets the fill code of the sixth byte,
\* no cell outside the rectangle changes, and the stream advances by 6
\* bytes.
FilledRectInstructionExact ==
  (/\ pc = "running"
   /\ Len(hex) = \h20 + 7
   /\ hex[\h21] \div 64 = 2
   /\ hex[\h27] = \hFF)
    => LET x == hex[\h22]
           y == hex[\h23]
           w == hex[\h24]
           hh == hex[\h25]
       IN /\ index = \h20 + 6
          /\ OnlyWritten(hex,
               [q \in RectCells(x, y, w, hh) |->
                  IF \/ q[1] - x \in {0, w - 1}
                     \/ q[2] - (y - 2) \in {0, hh - 1}
                  THEN hex[\h21] % 64
                  ELSE hex[\h26]])

\* A 3-by-3 rectangle of brick around one diamond has been decoded.
FilledRectInstructionWitness ==
  /\ pc = "running"
  /\ hex = Header \o <<\h82, 20, 12, 3, 3, \h14, \hFF>>
  /\ \A q \in RectCells(20, 12, 3, 3) \ {<<21, 11>>} : cave[q[2]][q[1]] = \h02
  /\ cave[11][21] = \h14
  /\ index = \h20 + 6

SingleInstructionExact ==
  (/\ pc = "running"
   /\ Len(hex) = \h20 + 4
   /\ hex[\h21] \div 64 = 0
   /\ hex[\h24] = \hFF)
    => /\ index = \h20 + 3
       /\ OnlyWritten(hex,
            [q \in {<<hex[\h22], hex[\h23] - 2>>} |-> hex[\h21] % 64])

\* A boulder has been stored at column 20, row 10, where the fill pass
\* had left something else.
SingleInstructionWitness ==
  /\ pc = "running"
  /\ hex = Header \o <<\h10, 20, 12, \hFF>>
  /\ cave[10][20] = \h10
  /\ FillOnly(hex)[10][20] /= \h10
  /\ index = \h20 + 3

SpriteCells(grid) ==
  {p \in (0..(cols - 1)) \X (0..(rows - 1)) :
     grid[p[2]][p[1]] /= \h00 /\ HasType(grid[p[2]][p[1]])}

\* C15 -- Sprite expansion: after setup() there is exactly one sprite for
\* every grid cell whose code is not space and is in the type table, at
\* that cell's (col, row) and with that type's name; space cells and cells
\* of a code the table lacks have no sprite, and such a code does not stop
\* the expansion of the cells after it.
SpriteExpansion ==
  pc = "running" =>
    /\ Occupied(sprites) = SpriteCells(cave)
    /\ Cardinality(Occupied(sprites)) = Len(sprites)
    /\ \A i \in 1..Len(sprites) :
         sprites[i].name = typeByCode(cave[sprites[i].row][sprites[i].col]).name

\* Cave 17 expanded: a cell of code 0x32 has no sprite, and cells after it
\* in the same row and in the rows below have theirs.
SpriteExpansionWitness ==
  /\ pc = "running"
  /\ caveId = 17
  /\ \E p \in (0..(cols - 1)) \X (0..(rows - 1)) :
       /\ cave[p[2]][p[1]] = \h32
       /\ p \notin Occupied(sprites)
       /\ \E i \in 1..Len(sprites) :
            sprites[i].row = p[2] /\ sprites[i].col > p[1]
       /\ \E i \in 1..Len(sprites) : sprites[i].row > p[2]
  /\ \E p \in (0..(cols - 1)) \X (0..(rows - 1)) :
       cave[p[2]][p[1]] = \h00 /\ p \notin Occupied(sprites)

(***************************************************************************)
(* Properties of the input phase of a tick (specification Spec)            *)
(***************************************************************************)
\* The indices of the sprites of a list with a name.
Named(list, name) == {i \in 1..Len(list) : list[i].name = name}

\* Some sprite of a list with the name is at the cell of sprite s.
NamedAt(list, name, s) ==
  \E j \in Named(list, name) : list[j].col = s.col /\ list[j].row = s.row

\* C16 -- Entry resolution: a tick that starts with an inbox sprite whose
\* animCycle is 0 ends with no inbox sprite and exactly one rockford
\* sprite, at the inbox's coordinates; a tick that starts with an inbox
\* sprite whose animCycle is above 0 creates no rockford and keeps the
\* inbox; at no tick boundary are there two rockford sprites.
EntryResolution ==
  [][ticks' = ticks + 1 =>
       LET inbox == Named(sprites, "inbox")
           over == {i \in inbox : sprites[i].animCycle = 0}
           waiting == {i \in inbox : sprites[i].animCycle > 0}
       IN /\ over /= {} =>
               /\ Named(sprites', "inbox") = {}
               /\ Cardinality(Named(sprites', "rockford")) = 1
               /\ \A i \in over : NamedAt(sprites', "rockford", sprites[i])
          /\ waiting /= {} =>
               /\ Cardinality(Named(sprites', "rockford"))
                    = Cardinality(Named(sprites, "rockford"))
               /\ \A i \in waiting : NamedAt(sprites', "inbox", sprites[i])
          /\ Cardinality(Named(sprites', "rockford")) <= 1]_vars

\* The tick that replaced the inbox is over: there is no inbox, and
\* rockford stands on the cell the inbox was decoded into.
EntryResolutionWitness ==
  /\ pc = "running"
  /\ ticks > 0
  /\ Named(sprites, "inbox") = {}
  /\ \E i \in Named(sprites, "rockford") :
       cave[sprites[i].row][sprites[i].col] = typeByName("inbox").code

\* C17 -- Input is ignored while the portal is present: from a state with
\* an inbox sprite a tick ends in the same sprite list whatever the joypad
\* mask: the list the tick with mask 0 ends in, the input phase giving the
\* same result for all 256 masks.
InputIgnoredWithPortal ==
  [][(ticks' = ticks + 1 /\ Named(sprites, "inbox") /= {}) =>
       /\ sprites' = update(sprites, 0).sprites
       /\ \E input \in {InputPhase(sprites, 0)} :
            \A mask \in 0..255 : InputPhase(sprites, mask) = input]_vars

\* Ticks have run with the inbox still there, its cycles partly used up,
\* and a direction key is down.
InputIgnoredWitness ==
  /\ pc = "running"
  /\ ticks >= 2
  /\ joypad = JOYPAD_RIGHT
  /\ \E i \in Named(sprites, "inbox") :
       /\ sprites[i].animCycle < 5
       /\ cave[sprites[i].row][sprites[i].col] = typeByName("inbox").code

\* C20 -- Runtime physics never raises an error: in every state reachable
\* from setup() of a built-in cave update() has not thrown, and its input
\* phase would not throw for any mask of the four direction bits; when
\* there is no inbox sprite there is a rockford sprite to move.
NoRuntimeError ==
  /\ pc /= "crashed"
  /\ pc = "running" =>
       /\ Named(sprites, "inbox") = {} => Named(sprites, "rockford") /= {}
       /\ \A mask \in 0..15 : ~InputPhase(sprites, mask).threw

\* After the last tick explored, with a direction key down: the inbox is
\* gone, rockford is there, and every tick has completed.
NoRuntimeErrorWitness ==
  /\ pc = "running"
  /\ ticks = MaxTicks
  /\ joypad = JOYPAD_LEFT
  /\ Named(sprites, "inbox") = {}
  /\ Named(sprites, "rockford") /= {}

(***************************************************************************)
(* Properties of the input phase (specification SpecInput)                 *)
(***************************************************************************)
\* Bit b of a mask.
Bit(pad, b) == (pad \div (2 ^ b)) % 2 = 1

\* The displacement of the first direction asserted in a mask, in the order
\* up (bit 0), right (bit 1), down (bit 2), left (bit 3).
PriorityDisplacement(pad) ==
  IF Bit(pad, 0) THEN [dx |-> 0, dy |-> -1]
  ELSE IF Bit(pad, 1) THEN [dx |-> 1, dy |-> 0]
  ELSE IF Bit(pad, 2) THEN [dx |-> 0, dy |-> 1]
  ELSE IF Bit(pad, 3) THEN [dx |-> -1, dy |-> 0]
  ELSE [dx |-> 0, dy |-> 0]

\* C18 -- Input priority: for the mask the handlers have built the resolver
\* yields one of none (0), up (1), right (3), down (5), left (7): the first
\* asserted of up, right, down, left, none when no direction bit is set; the
\* A, B, start and select bits do not change the result, and the
\* displacement of the result is along one axis.
InputPriority ==
  LET direction == getDirectionFromJoypad(joypad)
      displacement == getDXDYFromDirection(direction)
  IN /\ joypad \in 0..255
     /\ direction \in {0, 1, 3, 5, 7}
     /\ direction = 0 <=> joypad % 16 = 0
     /\ direction /= 0 => displacement = PriorityDisplacement(joypad)
     /\ \A buttons \in 0..15 :
          getDirectionFromJoypad((joypad % 16) + 16 * buttons) = direction
     /\ displacement.dx = 0 \/ displacement.dy = 0

\* The rockford sprites of a list stand at (col, row).
RockfordAt(list, col, row) ==
  /\ Named(list, "rockford") /= {}
  /\ \A i \in Named(list, "rockford") :
       list[i].col = col /\ list[i].row = row

\* A tick has run with up and left both down, and a button: rockford, set
\* in column 20 of row 10 with nothing above, has gone up and not left.
InputPriorityWitness ==
  /\ pc = "running"
  /\ ticks = 1
  /\ hex = Scene(1, 0)
  /\ joypad = JOYPAD_UP + JOYPAD_LEFT
  /\ RockfordAt(sprites, 20, 9)

\* The sprites of a list, as a set.
Items(list) == {list[i] : i \in 1..Len(list)}

\* C19 -- Player movement: in a tick with no inbox sprite and a resolved
\* direction, the target cell being the one next to rockford in that
\* direction: if the target holds no sprite, or a dirt or diamond sprite,
\* the input phase puts rockford on the target, removes the sprite of the
\* target and changes nothing else, and the tick ends with rockford there
\* and the list shorter by the sprite removed; if the target holds any
\* other sprite the input phase leaves the list as it is and the tick ends
\* with rockford where it was and the list as long as before.
PlayerMovement ==
  [][(/\ ticks' = ticks + 1
      /\ Named(sprites, "inbox") = {}
      /\ Named(sprites, "rockford") /= {}
      /\ getDirectionFromJoypad(joypad) /= 0) =>
       LET r == First(Named(sprites, "rockford"))
           d == getDXDYFromDirection(getDirectionFromJoypad(joypad))
           col == sprites[r].col + d.dx
           row == sprites[r].row + d.dy
           target == {j \in 1..Len(sprites) :
                        sprites[j].col = col /\ sprites[j].row = row}
           free == \A j \in target : sprites[j].name \in {"dirt", "diamond"}
           input == InputPhase(sprites, joypad)
       IN /\ ~input.threw
          /\ IF free
             THEN /\ Items(input.sprites)
                       = (Items(sprites)
                            \ ({sprites[r]} \cup {sprites[j] : j \in target}))
                         \cup {[sprites[r] EXCEPT !.col = col, !.row = row]}
                  /\ Len(input.sprites) = Len(sprites) - Cardinality(target)
                  /\ Len(sprites') = Len(input.sprites)
                  /\ RockfordAt(sprites', col, row)
             ELSE /\ input.sprites = sprites
                  /\ Len(sprites') = Len(sprites)
                  /\ RockfordAt(sprites', sprites[r].col, sprites[r].row)]_vars

\* A tick has run with right down, in the scene with dirt on the right of
\* rockford: rockford stands on the cell of the dirt, the dirt sprite is
\* gone and no other is.
PlayerMovementWitness ==
  /\ pc = "running"
  /\ ticks = 1
  /\ hex = Scene(1, 0)
  /\ joypad = JOYPAD_RIGHT
  /\ cave[10][21] = typeByName("dirt").code
  /\ RockfordAt(sprites, 21, 10)
  /\ \A i \in Named(sprites, "dirt") :
       sprites[i].col /= 21 \/ sprites[i].row /= 10
  /\ Len(sprites) = Len(ExpandSprites(cave)) - 1

\* A tick has run with left down, in the scene with a boulder on the left
\* of rockford: rockford has stayed and no sprite is gone.
PlayerBlockedWitness ==
  /\ pc = "running"
  /\ ticks = 1
  /\ hex = Scene(1, 0)
  /\ joypad = JOYPAD_LEFT
  /\ cave[10][19] = typeByName("boulder").code
  /\ RockfordAt(sprites, 20, 10)
  /\ Len(sprites) = Len(ExpandSprites(cave))

(***************************************************************************)
(* Properties of the falling pass (specification SpecScene)                *)
(***************************************************************************)
\* The indices of the sprites of a list at (col, row).
At(list, col, row) ==
  {j \in 1..Len(list) : list[j].col = col /\ list[j].row = row}

\* The list the falling pass of a tick starts from: the input phase, then
\* the ordering.
Ordered(list, pad) == orderSprites(InputPhase(list, pad).sprites)

\* The list as the sprite at index i of the ordered list finds it: the
\* sprites before it have been evaluated.
Live(ordered, i) == FallRange(ordered, 1, i - 1)

\* A step is a tick that update() has completed.
Tick == ticks' = ticks + 1 /\ pc' = "running"

\* C21 -- Falling monotonicity: in any tick, a fallable sprite with no
\* sprite in the cell under it when it is evaluated ends the tick one row
\* down, in the same column and falling; no fallable sprite ends a tick in
\* a row above the one it started the falling pass in, and the phases
\* before the falling pass leave the fallable sprites as they are.
FallingMonotonicity ==
  [][Tick =>
       \E ordered \in {Ordered(sprites, joypad)} :
         /\ Len(sprites') = Len(ordered)
         /\ {s \in Items(ordered) : s.fallable}
              \subseteq {s \in Items(sprites) : s.fallable}
         /\ \A i \in 1..Len(ordered) :
              ordered[i].fallable =>
                /\ sprites'[i].row >= ordered[i].row
                /\ \E live \in {Live(ordered, i)} :
                     At(live, live[i].col, live[i].row + 1) = {} =>
                       /\ sprites'[i].row = ordered[i].row + 1
                       /\ sprites'[i].col = ordered[i].col
                       /\ sprites'[i].isFalling]_vars

\* Three ticks have run on the scene with steel under the column: the
\* boulder set at (5, 5) is at (5, 8), falling.
FallingMonotonicityWitness ==
  /\ pc = "running"
  /\ ticks = 3
  /\ hex = PhysicsScene(0)
  /\ \E i \in At(sprites, 5, 8) :
       sprites[i].name = "boulder" /\ sprites[i].isFalling
  /\ At(sprites, 5, 5) = {}

\* C22 -- Rolling rule and tie-break: a fallable sprite that is evaluated
\* with a rounded sprite in the cell under it goes one column left when the
\* cells on its left and under that are both empty; if not, one column
\* right when the cells on its right and under that are both empty; if not,
\* it keeps its position and is resting.  It never changes row.  The
\* boulder on a boulder with walls on both sides at both rows is resting at
\* (12, 10) after every tick.
RollingRule ==
  [][Tick =>
       \E ordered \in {Ordered(sprites, joypad)} :
         /\ \A i \in 1..Len(ordered) :
              ordered[i].fallable =>
                \E live \in {Live(ordered, i)} :
                  LET col == live[i].col
                      row == live[i].row
                      clear(dx) == /\ At(live, col + dx, row) = {}
                                   /\ At(live, col + dx, row + 1) = {}
                  IN (\E j \in At(live, col, row + 1) : live[j].rounded) =>
                       /\ sprites'[i].row = row
                       /\ IF clear(-1) THEN sprites'[i].col = col - 1
                          ELSE IF clear(1) THEN sprites'[i].col = col + 1
                          ELSE /\ sprites'[i].col = col
                               /\ ~sprites'[i].isFalling
         /\ hex = PhysicsScene(15) =>
              \E i \in At(sprites', 12, 10) :
                sprites'[i].name = "boulder" /\ ~sprites'[i].isFalling]_vars

\* A tick has run on the scene without walls: the boulder set on a boulder
\* at (12, 10), both sides clear, is at (11, 10), and the diamond set on a
\* brick at (18, 10) is at (17, 10).
RollingRuleWitness ==
  /\ pc = "running"
  /\ ticks = 1
  /\ hex = PhysicsScene(0)
  /\ At(sprites, 12, 10) = {}
  /\ \E i \in At(sprites, 11, 10) : sprites[i].name = "boulder"
  /\ \E i \in At(sprites, 17, 10) : sprites[i].name = "diamond"
  /\ At(sprites, 13, 10) = {}

\* The scenes with an object at (5, 9), and those whose object there is not
\* rounded and does not move: steel, dirt, firefly, butterfly.
OccupiedScenes ==
  {PhysicsScene(n) : n \in {m \in 0..15 : Occupants[(m % 8) + 1] /= \h00}}
StaticScenes ==
  {PhysicsScene(n) :
     n \in {m \in 0..15 : Occupants[(m % 8) + 1] \in {\h07, \h01, \h08, \h30}}}

\* A boulder is at (col, row), resting or falling as the flag says.
BoulderAt(col, row, falling) ==
  \E i \in At(sprites, col, row) :
    sprites[i].name = "boulder" /\ sprites[i].isFalling = falling

\* C23 as stated -- Empty-column fall scenario: the boulder set at (5, 5)
\* with nothing in the three cells under it and an object at (5, 9) is,
\* after exactly 3 ticks, at (5, 8) and resting, and it is at (5, 8) after
\* every later tick.
EmptyColumnFall ==
  (pc = "running" /\ hex \in OccupiedScenes /\ ticks >= 3) =>
    /\ \E i \in At(sprites, 5, 8) : sprites[i].name = "boulder"
    /\ ticks = 3 => BoulderAt(5, 8, FALSE)

\* C23 as amended -- the boulder set at (5, 5) with nothing in the three
\* cells under it and, at (5, 9), an object that is not rounded and does
\* not move goes down one row a tick, falling; after exactly 3 ticks it is
\* at (5, 8), still falling; after the 4th tick and every later one it is at
\* (5, 8), resting.
EmptyColumnFallAmended ==
  (pc = "running" /\ hex \in StaticScenes) =>
    /\ ticks = 0 => BoulderAt(5, 5, FALSE)
    /\ ticks \in 1..3 => BoulderAt(5, 5 + ticks, TRUE)
    /\ ticks >= 4 => BoulderAt(5, 8, FALSE)
    /\ Cardinality({i \in 1..Len(sprites) :
                      sprites[i].col = 5 /\ sprites[i].name = "boulder"}) = 1

\* Five ticks have run on the scene with a firefly at (5, 9): the boulder
\* is at (5, 8), resting, on the firefly.
EmptyColumnFallWitness ==
  /\ pc = "running"
  /\ ticks = 5
  /\ hex = PhysicsScene(2)
  /\ BoulderAt(5, 8, FALSE)
  /\ \E i \in At(sprites, 5, 9) : sprites[i].name = "firefly"

\* C24 -- Crush stub: when a fallable sprite is evaluated with a sprite
\* under it that is explodable and not rounded, the tick removes no sprite,
\* leaves both sprites where they are, and a sprite that was falling is
\* still falling at the end of the tick.
CrushStub ==
  [][Tick =>
       \E ordered \in {Ordered(sprites, joypad)} :
         /\ Len(sprites') = Len(ordered)
         /\ \A i \in 1..Len(ordered) :
              ordered[i].fallable =>
                \E live \in {Live(ordered, i)} :
                  \A j \in At(live, live[i].col, live[i].row + 1) :
                    (live[j].explodable /\ ~live[j].rounded) =>
                      /\ sprites'[i].col = live[i].col
                      /\ sprites'[i].row = live[i].row
                      /\ sprites'[j].col = live[j].col
                      /\ sprites'[j].row = live[j].row
                      /\ live[i].isFalling => sprites'[i].isFalling]_vars

\* C30 -- Falling state machine: a fallable sprite whose position changes
\* during a tick, one row down or one column left or right, is falling at
\* the end of that tick; a sprite that is resting at the end of a tick has
\* not changed position in it.
FallingStateMachine ==
  [][Tick =>
       \E ordered \in {Ordered(sprites, joypad)} :
         \A i \in 1..Len(ordered) :
           (/\ ordered[i].fallable
            /\ \/ sprites'[i].col /= ordered[i].col
               \/ sprites'[i].row /= ordered[i].row) =>
             sprites'[i].isFalling]_vars

AnimationRanges(list) ==
  \A i \in 1..Len(list) :
    /\ list[i].animCycle >= 0
    /\ list[i].animated => list[i].animId \in 0..(list[i].animIdMax - 1)
    /\ ~list[i].animated => list[i].animId = 0
    /\ list[i].name \in {"diamond", "firefly", "butterfly", "amoeba"} =>
         list[i].animated /\ list[i].animCycle = 0

\* C26 -- Animation update: each tick, every animated sprite goes to frame
\* (animId + 1) mod animIdMax; when that is frame 0 and its animCycle is
\* above 0, animCycle goes down by 1 and the sprite stops being animated
\* when it reaches 0; a sprite that is not animated keeps animId 0; diamond,
\* firefly, butterfly and amoeba are animated with animCycle 0 in every
\* state; animId is within 0 .. animIdMax - 1 for animated sprites and
\* animCycle is never negative.
AnimationUpdate ==
  [][/\ AnimationRanges(sprites)
     /\ AnimationRanges(sprites')
     /\ Tick =>
          \E fallen \in {FallRange(Ordered(sprites, joypad), 1,
                                   Len(Ordered(sprites, joypad)))} :
            /\ Len(sprites') = Len(fallen)
            /\ \A i \in 1..Len(fallen) :
                 LET a == fallen[i]
                     b == sprites'[i]
                     wrap == a.animId + 1 = a.animIdMax
                 IN IF ~a.animated
                    THEN b = a
                    ELSE /\ b.animId = (a.animId + 1) % a.animIdMax
                         /\ b.animCycle = IF wrap /\ a.animCycle > 0
                                          THEN a.animCycle - 1
                                          ELSE a.animCycle
                         /\ b.animated = ~(wrap /\ a.animCycle = 1)]_vars

\* Ten ticks have run: the inbox has used up its five cycles of two frames
\* and is not animated any more; a diamond is on frame 2 of its eight.
AnimationUpdateWitness ==
  /\ pc = "running"
  /\ ticks = 10
  /\ \E i \in Named(sprites, "inbox") :
       /\ ~sprites[i].animated
       /\ sprites[i].animId = 0
       /\ sprites[i].animCycle = 0
  /\ \E i \in Named(sprites, "diamond") : sprites[i].animId = 2

\* C27 -- Tick scheduler: a frame callback runs update() at most once; it
\* runs it only when the accumulated time has reached the budget of 100 ms,
\* and then the accumulator is 0 afterwards, whatever the elapsed time was;
\* a callback below the budget only adds the elapsed time; every update()
\* is followed by exactly one render(); the accumulator is below the budget
\* between callbacks, so no tick is owed.
TickScheduler ==
  [][/\ time < timer
     /\ renders = ticks
     /\ ticks' \in {ticks, ticks + 1}
     /\ renders' - renders = ticks' - ticks
     /\ ticks' = ticks + 1 =>
          /\ time' = 0
          /\ \E deltaTime \in SceneDeltas : time + deltaTime >= timer
     /\ ticks' = ticks /\ time' /= time =>
          /\ time' - time \in SceneDeltas
          /\ time' < timer
          /\ sprites' = sprites]_vars

\* Two ticks have run, each with its render, and a later callback below the
\* budget has only added its time to the accumulator.
TickSchedulerWitness ==
  /\ pc = "running"
  /\ ticks = 2
  /\ renders = 2
  /\ time = timer \div 2

\* C28 -- Startup ordering (specification SpecStart): a tick runs only with
\* every image loaded and setup() finished once without a throw; when the
\* loop starts, the grid is the one caveLoad returns for the cave and the
\* sprite list is its expansion; once an image has failed to load or the
\* decode has thrown, no tick has run and none runs; a key event changes the
\* joypad mask and nothing else, before the start as after it.
StartupOrdering ==
  [][/\ ticks > 0 \/ ticks' > ticks =>
          /\ \A i \in DOMAIN images : images[i] = "loaded"
          /\ loads = 1
          /\ pc = "running"
     /\ pc = "running" /\ ticks = 0 =>
          /\ \A i \in DOMAIN images : images[i] = "loaded"
          /\ \E loaded \in {caveLoad(DecodeState(EmptyCave, U32(0)),
                                     caveId, difficultyId)} :
               /\ ~loaded.threw
               /\ cave = loaded.cave
               /\ sprites = ExpandSprites(loaded.cave)
     /\ pc = "failed" \/ (\E i \in DOMAIN images : images[i] = "error") =>
          /\ ticks = 0
          /\ ticks' = 0
          /\ pc' /= "running"
          /\ sprites = <<>>
     /\ pc = "loading" => ticks = 0 /\ sprites = <<>> /\ loads = 0
     /\ joypad' /= joypad =>
          UNCHANGED <<pc, images, caveId, difficultyId, hex, currentSeed,
                      cave, sprites, time, rand, index, cell, loads, ticks,
                      renders>>]_vars

\* A key went down while the second image was still loading, the images
\* then loaded, setup() decoded the cave and a first tick has run.
StartupOrderingWitness ==
  /\ pc = "running"
  /\ ticks = 1
  /\ loads = 1
  /\ joypad /= 0
  /\ \A i \in DOMAIN images : images[i] = "loaded"
  /\ sprites /= <<>>

\* Both images loaded and the decode threw: the engine never starts.
StartupDecodeFailed ==
  /\ pc = "failed"
  /\ \A i \in DOMAIN images : images[i] = "loaded"
  /\ loads = 1
  /\ ticks = 0

\* One image loaded, the other failed: the engine never starts.
StartupImageFailed ==
  /\ pc = "failed"
  /\ \E i \in DOMAIN images : images[i] = "error"
  /\ \E i \in DOMAIN images : images[i] = "loaded"
  /\ loads = 0
  /\ ticks = 0

\* The flags and the gid of every sprite of a list are the ones of the table
\* for its name.
FlagsByName(list) ==
  \A i \in 1..Len(list) :
    /\ list[i].fallable = (list[i].name \in {"boulder", "diamond"})
    /\ list[i].rounded = (list[i].name \in {"brick", "boulder", "diamond"})
    /\ list[i].explodable = (list[i].name \in {"firefly", "butterfly"})
    /\ list[i].name \in {"steel", "outbox", "inbox"} => ~list[i].consumable
    /\ list[i].gid = typeByName(list[i].name).gid

\* C29 -- Capability flags are a fixed function of the type: in every state
\* each sprite is fallable iff it is a boulder or a diamond, rounded iff it
\* is a brick, a boulder or a diamond, explodable iff it is a firefly or a
\* butterfly, and not consumable when it is steel, outbox or inbox; a tick
\* leaves the name, gid, fallable, rounded, explodable and consumable of
\* every sprite that goes through its falling and animation passes as they
\* were, and its input phase makes no sprite of any type but rockford.
CapabilityFlags ==
  [][/\ FlagsByName(sprites)
     /\ FlagsByName(sprites')
     /\ Tick =>
          \E ordered \in {Ordered(sprites, joypad)} :
            /\ Len(sprites') = Len(ordered)
            /\ \A i \in 1..Len(ordered) :
                 /\ sprites'[i].name = ordered[i].name
                 /\ sprites'[i].gid = ordered[i].gid
                 /\ sprites'[i].fallable = ordered[i].fallable
                 /\ sprites'[i].rounded = ordered[i].rounded
                 /\ sprites'[i].explodable = ordered[i].explodable
                 /\ sprites'[i].consumable = ordered[i].consumable
            /\ \A i \in 1..Len(types) :
                 types[i].name /= "rockford" =>
                   Cardinality(Named(sprites', types[i].name))
                     <= Cardinality(Named(sprites, types[i].name))]_vars

\* The last tick of a scene with a firefly has run: rockford has replaced
\* the inbox, a diamond is on a frame other than its first, and sprites of
\* the other types are still there.
CapabilityFlagsWitness ==
  /\ pc = "running"
  /\ ticks = MaxSceneTicks
  /\ Named(sprites, "inbox") = {}
  /\ \A name \in {"rockford", "firefly", "steel", "brick", "magic", "outbox",
                  "amoeba", "boulder", "diamond"} :
       Named(sprites, name) /= {}
  /\ \E i \in Named(sprites, "diamond") : sprites[i].animId /= 0

(***************************************************************************)
(* Properties of the instruction pass (specification SpecPass)             *)
(***************************************************************************)
\* Offset q of h is an opcode position: the walk from offset p that takes
\* 3, 5, 6 or 5 bytes by instruction kind and stops at the first opcode
\* 0xFF comes to q.
RECURSIVE IsOpcodePosition(_, _, _)
IsOpcodePosition(h, p, q) ==
  IF p = q THEN TRUE
  ELSE IF p > q \/ p >= Len(h) \/ h[p + 1] = \hFF THEN FALSE
  ELSE IsOpcodePosition(h, p + InstructionLength(h[p + 1]), q)

\* The offsets from \h20 up to q, q excluded, that hold 0xFF.
SkippedSentinels(h, q) == {k \in \h20..(q - 1) : HexAt(h, k) = \hFF}

\* C31 -- Decoder termination on built-in data: for each of the 20 built-in
\* caves (and for the byte sequences with a 0xFF argument) the instruction
\* pass starts at offset 0x20, goes forward by 3, 5, 6 or 5 bytes for kinds
\* 0, 1, 2, 3, is always at an opcode position inside the byte sequence
\* with the whole instruction inside it, never fails, and comes to an
\* opcode position that holds 0xFF, where it stops; a 0xFF at an argument
\* position is stepped over.
DecoderTermination ==
  /\ [](pc /= "failed")
  /\ [](pc \in {"pass", "running"} =>
          /\ IsOpcodePosition(hex, \h20, index)
          /\ index < Len(hex)
          /\ HexAt(hex, index) /= \hFF =>
               index + InstructionLength(HexAt(hex, index)) < Len(hex)
          /\ pc = "running" => HexAt(hex, index) = \hFF)
  /\ [][pc = "pass" /\ pc' = "pass" =>
          /\ HexAt(hex, index) /= \hFF
          /\ index' - index = InstructionLength(HexAt(hex, index))
          /\ index' - index =
               <<3, 5, 6, 5>>[InstructionId(HexAt(hex, index)) + 1]]_vars
  /\ <>(pc = "running")

\* The pass over built-in cave 1 has stopped on the sentinel, the last byte
\* of the description, after instructions of more than one length.
DecoderTerminationWitness ==
  /\ pc = "running"
  /\ caveId = 1
  /\ hex = rawCaveDatas[1]
  /\ index = Len(hex) - 1
  /\ HexAt(hex, index) = \hFF
  /\ sprites /= <<>>

\* The pass has stepped over a 0xFF argument byte and stopped on the
\* sentinel after it; the object that follows the argument is in the grid.
SentinelArgumentWitness ==
  /\ pc = "running"
  /\ hex \in SentinelArguments
  /\ SkippedSentinels(hex, index) /= {}
  /\ cave[6][8] \in {\h10, \h14}

(***************************************************************************)
(* Properties of the running game (specification Spec)                     *)
(***************************************************************************)
\* The sprite is on a cell of the grid that holds the inbox code.
OnInboxCell(s) == cave[s.row][s.col] = \h25

InteriorCount == (rows - 2) * (cols - 2)
DrawChunk == InteriorCount \div 10

\* n calls of randInt255() from a generator state: the state they leave and
\* the values returned, after those of acc.
RECURSIVE DrawRun(_, _, _)
DrawRun(seed, n, acc) ==
  IF n = 0 THEN [seed |-> seed, values |-> acc]
  ELSE LET r == randInt255(seed)
           values == Append(acc, r.value)
       IN IF Len(values) = 0 \/ r.seed.lo < 0 THEN [seed |-> seed, values |-> acc]
          ELSE DrawRun(r.seed, n - 1, values)

\* The same, a chunk at a time.
RECURSIVE Draws(_, _, _)
Draws(seed, n, acc) ==
  IF n <= DrawChunk THEN DrawRun(seed, n, acc)
  ELSE LET d == DrawRun(seed, DrawChunk, acc)
       IN IF Len(d.values) = 0 THEN d
          ELSE Draws(d.seed, n - DrawChunk, d.values)

\* The row-major number of the cell with the k-th draw, k from 0.
InteriorCell(k) == (k \div (cols - 2) + 1) * cols + (k % (cols - 2)) + 1

\* The number of interior cells before the cell with row-major number c.
InteriorIndex(c) == (c \div cols - 1) * (cols - 2) + (c % cols) - 1

\* The code of the cell with row-major number c of a grid.
CodeAt(grid, c) == grid[c \div cols][c % cols]

\* The values are periodic with period 256 and each 256 in a row are the
\* 256 byte values, once each.
FullPeriod(values) ==
  /\ \A k \in 1..(Len(values) - 256) : values[k + 256] = values[k]
  /\ \A j \in 0..(Len(values) - 256) :
       {values[j + k] : k \in 1..256} = 0..255

\* C33 -- Random-byte period: the value randInt255() returns depends only
\* on the generator state mod 256; the values drawn for a cave are periodic
\* with period 256 and every 256 draws in a row hold each of 0..255 once;
\* the fill pass draws once for each interior cell in row-major order and
\* not at all for a border cell, 760 draws in all; and an interior cell
\* holds the code of the interior cell 256 draws before it.
RandomBytePeriod ==
  /\ [](pc = "fill" =>
          randInt255(currentSeed).value
            = randInt255(U32(currentSeed.lo % 256)).value)
  /\ [](pc = "fill" /\ cell = rows * cols =>
          \E d \in {Draws(setSeed(HexAt(hex, \h04 + difficultyId - 1)),
                          InteriorCount, <<>>)} :
            /\ Len(d.values) = 760
            /\ FullPeriod(d.values)
            /\ d.seed = currentSeed
            /\ d.values[InteriorCount] = rand
            /\ \A k \in 0..(InteriorCount - 1) :
                 CodeAt(cave, InteriorCell(k)) = RandomObject(hex, d.values[k + 1])
            /\ Draws(currentSeed, 256, <<>>).values
                 = Draws(U32(currentSeed.lo % 256), 256, <<>>).values)
  /\ [][pc = "fill" =>
          /\ cell' = cell + 1
          /\ ~Interior(cell) => currentSeed' = currentSeed
          /\ Interior(cell) =>
               /\ currentSeed' = nextRandom(currentSeed)
               /\ InteriorCell(InteriorIndex(cell)) = cell
               /\ InteriorIndex(cell) >= 256 =>
                    CodeAt(cave', cell)
                      = CodeAt(cave, InteriorCell(InteriorIndex(cell) - 256))]_vars

\* The fill pass of a cave is over: an interior cell holds an object other
\* than dirt that its right neighbour does not hold and that the cell 256
\* draws later holds.
RandomBytePeriodWitness ==
  /\ pc = "fill"
  /\ cell = rows * cols
  /\ \E k \in 0..(InteriorCount - 257) :
       /\ CodeAt(cave, InteriorCell(k)) /= \h01
       /\ CodeAt(cave, InteriorCell(k)) /= CodeAt(cave, InteriorCell(k + 1))
       /\ CodeAt(cave, InteriorCell(k)) = CodeAt(cave, InteriorCell(k + 256))

(***************************************************************************)
(* Properties of the sprite list over a tick (specification SpecScene)     *)
(***************************************************************************)
\* The number of sprites of a list with the name.
Count(list, name) == Cardinality(Named(list, name))

\* C34 -- Sprite population: a tick never makes the sprite list longer; it
\* removes at most one sprite that is dirt or diamond, the one that was on
\* the cell rockford is on after the tick, and then the list is shorter by
\* exactly 1; in the tick that removes the inbox a rockford is pushed on its
\* cell and the length is unchanged; the numbers of boulders, walls,
\* fireflies, butterflies, amoeba, outbox and player sprites never go down.
SpritePopulation ==
  [][Tick =>
       \E eaten \in {Count(sprites, "dirt") + Count(sprites, "diamond")
                       - Count(sprites', "dirt") - Count(sprites', "diamond")} :
       \E entered \in {Count(sprites, "inbox") - Count(sprites', "inbox")} :
         /\ Len(sprites') <= Len(sprites)
         /\ Len(sprites') = Len(sprites) - eaten
         /\ eaten \in {0, 1}
         /\ entered \in {0, 1}
         /\ Count(sprites', "dirt") <= Count(sprites, "dirt")
         /\ Count(sprites', "diamond") <= Count(sprites, "diamond")
         /\ Count(sprites', "rockford") = Count(sprites, "rockford") + entered
         /\ \A i \in 1..Len(types) :
              types[i].name \notin {"dirt", "diamond", "inbox", "rockford"} =>
                Count(sprites', types[i].name) = Count(sprites, types[i].name)
         /\ eaten = 1 =>
              /\ entered = 0
              /\ \E r \in Named(sprites', "rockford") :
                   /\ At(sprites', sprites'[r].col, sprites'[r].row) = {r}
                   /\ \E i \in At(sprites, sprites'[r].col, sprites'[r].row) :
                        sprites[i].name \in {"dirt", "diamond"}
         /\ entered = 1 =>
              /\ eaten = 0
              /\ \E i \in Named(sprites, "inbox") :
                   /\ sprites[i].animCycle = 0
                   /\ \E r \in Named(sprites', "rockford") :
                        /\ sprites'[r].col = sprites[i].col
                        /\ sprites'[r].row = sprites[i].row]_vars

\* Rockford has replaced the inbox in tick 11 and, in tick 12, has gone down
\* on the cell of the diamond under it: the diamond is gone, the dirt beside
\* the inbox's cell is still there.
SpritePopulationWitness ==
  /\ pc = "running"
  /\ ticks = 12
  /\ Named(sprites, "inbox") = {}
  /\ \E r \in Named(sprites, "rockford") :
       /\ sprites[r].col = 36
       /\ sprites[r].row = 3
       /\ At(sprites, 36, 3) = {r}
  /\ \E i \in At(sprites, 35, 2) : sprites[i].name = "dirt"

\* Name and cell of the sprites of a list that are not fallable and not the
\* player, and of those that are fallable.
Fixed(list) ==
  {<<list[i].name, list[i].col, list[i].row>> :
     i \in {j \in 1..Len(list) : ~list[j].fallable /\ list[j].name /= "rockford"}}
Fallable(list) ==
  {<<list[i].name, list[i].col, list[i].row>> :
     i \in {j \in 1..Len(list) : list[j].fallable}}

\* Nothing, one row down, one column left, one column right.
FallSteps == {<<0, 0>>, <<0, 1>>, <<-1, 0>>, <<1, 0>>}

\* Nothing or one cell up, right, down or left.
PlayerSteps == {<<0, 0>>, <<0, -1>>, <<1, 0>>, <<0, 1>>, <<-1, 0>>}

\* C35 -- Movement frame: over a tick every sprite that is neither fallable
\* nor the player stays on its cell; the input phase moves no fallable
\* sprite and the falling pass moves each one by nothing, one row down, one
\* column left or one column right; the player moves by nothing or by one
\* cell up, right, down or left; the cave grid is as it was.
MovementFrame ==
  [][Tick =>
       \E ordered \in {Ordered(sprites, joypad)} :
         /\ cave' = cave
         /\ Fixed(sprites') \subseteq Fixed(sprites)
         /\ Fixed(ordered) = Fixed(sprites')
         /\ Fallable(ordered) \subseteq Fallable(sprites)
         /\ Len(sprites') = Len(ordered)
         /\ \A i \in 1..Len(ordered) :
              /\ sprites'[i].name = ordered[i].name
              /\ ordered[i].fallable =>
                   <<sprites'[i].col - ordered[i].col,
                     sprites'[i].row - ordered[i].row>> \in FallSteps
              /\ ~ordered[i].fallable =>
                   /\ sprites'[i].col = ordered[i].col
                   /\ sprites'[i].row = ordered[i].row
         /\ \A r \in Named(sprites, "rockford") :
              \A q \in Named(sprites', "rockford") :
                <<sprites'[q].col - sprites[r].col,
                  sprites'[q].row - sprites[r].row>> \in PlayerSteps]_vars

\* The twelfth tick, with the left key down: rockford is one column left of
\* the inbox's cell, a boulder of a rolling arrangement has gone one column
\* left and the steel beside the inbox's diamond is where it was set.
MovementFrameWitness ==
  /\ pc = "running"
  /\ ticks = 12
  /\ hex = PhysicsScene(0)
  /\ \E r \in Named(sprites, "rockford") :
       sprites[r].col = 35 /\ sprites[r].row = 2
  /\ \E i \in Named(sprites, "boulder") :
       sprites[i].col = 11 /\ sprites[i].row > 10
  /\ \E i \in At(sprites, 36, 4) : sprites[i].name = "steel"

(***************************************************************************)
(* Properties of the frame of the grid (specification SpecBorder)          *)
(***************************************************************************)
\* C36 -- Sprites stay inside the grid: after setup() of a built-in cave at
\* a difficulty of 1..5 and after every tick, under the keys pressed, every
\* sprite has 0 <= col <= 39 and 0 <= row <= 21, and every border cell
\* holds exactly one sprite, a steel or an outbox sprite, which neither the
\* player nor a falling or rolling object can enter.
SpritesInsideGrid ==
  pc = "running" =>
    /\ \A i \in 1..Len(sprites) :
         /\ sprites[i].col \in 0..(cols - 1)
         /\ sprites[i].row \in 0..(rows - 1)
    /\ \A p \in Border :
         /\ Cardinality(At(sprites, p[2], p[1])) = 1
         /\ \A i \in At(sprites, p[2], p[1]) :
              /\ sprites[i].name \in {"steel", "outbox"}
              /\ ~sprites[i].fallable
              /\ ~sprites[i].consumable

\* Cave 4 after the tick that followed rockford's entry at (1, 1), with
\* the left key down: rockford is still at (1, 1), beside the steel of the
\* left and the upper border.
SpritesInsideGridWitness ==
  /\ pc = "running"
  /\ caveId = 4
  /\ ticks = 12
  /\ joypad = JOYPAD_LEFT
  /\ \E r \in Named(sprites, "rockford") :
       sprites[r].col = 1 /\ sprites[r].row = 1
  /\ \E i \in At(sprites, 0, 1) : sprites[i].name = "steel"
====
